---- MODULE Spec2Model ----
(***************************************************************************)
(* Model of the portfolio rebalancing engine                                *)
(* (src/src/portfolio/rebalancer.py, class PortfolioRebalancer) and of the *)
(* optimizer (src/src/portfolio/optimizer.py, class PortfolioOptimizer).   *)
(*                                                                         *)
(* Python floats are modelled as exact rationals <<n, d>> (d > 0, lowest   *)
(* terms); NaN is the pair <<0, 0>>.  A datetime is a number of ticks,     *)
(* TicksPerDay ticks to the day, so that timedelta.days is a floor         *)
(* division.  An optional argument that is None is the empty tuple << >>   *)
(* (numbers) or NoDate (datetimes).  A dict is a function plus, where the  *)
(* code iterates it, its insertion order.                                  *)
(***************************************************************************)
EXTENDS Integers, Sequences, FiniteSets, TLC

VARIABLES
    config,               \* self.config
    rebalance_history,    \* self.rebalance_history
    last_rebalance_date,  \* self.last_rebalance_date
    set_order,            \* the order in which this process's sets yield the symbols
    call,                 \* the last completed call: operation, arguments, result
    bt,                   \* the frame of a running backtest_rebalancing call
    risk_free_rate,       \* PortfolioOptimizer.risk_free_rate
    caller                \* the two dicts last passed to execute_rebalance, as
                          \* their owner holds them now

vars == <<config, rebalance_history, last_rebalance_date, set_order, call, bt, risk_free_rate, caller>>

\* What no method assigns.
fixed == <<config, set_order, risk_free_rate>>

(***************************************************************************)
(* Exact rational arithmetic standing for float arithmetic.                *)
(***************************************************************************)
RECURSIVE GCD(_, _)
GCD(a, b) == IF b = 0 THEN a ELSE GCD(b, a % b)

IAbs(i) == IF i < 0 THEN -i ELSE i

Q(n, d) ==
    LET s == IF d < 0 THEN -1 ELSE 1
        g == GCD(IAbs(n), IAbs(d))
    IN  <<(s * n) \div g, (s * d) \div g>>

Int2Q(i) == <<i, 1>>
Zero == <<0, 1>>
One == <<1, 1>>
Hundred == <<100, 1>>

QAdd(x, y) ==
    LET g == GCD(x[2], y[2])
    IN  Q(x[1] * (y[2] \div g) + y[1] * (x[2] \div g), (x[2] \div g) * y[2])

QNeg(x) == <<-x[1], x[2]>>
QSub(x, y) == QAdd(x, QNeg(y))

QMul(x, y) ==
    LET g1 == GCD(IAbs(x[1]), y[2])
        g2 == GCD(IAbs(y[1]), x[2])
    IN  IF x[1] = 0 \/ y[1] = 0 THEN Zero
        ELSE Q((x[1] \div g1) * (y[1] \div g2), (x[2] \div g2) * (y[2] \div g1))

QInv(x) == IF x[1] < 0 THEN <<-x[2], -x[1]>> ELSE <<x[2], x[1]>>
QDiv(x, y) == QMul(x, QInv(y))
QAbs(x) == <<IAbs(x[1]), x[2]>>

QLt(x, y) ==
    LET g == GCD(x[2], y[2])
    IN  x[1] * (y[2] \div g) < y[1] * (x[2] \div g)
QLe(x, y) == ~QLt(y, x)
QGt(x, y) == QLt(y, x)
QGe(x, y) == ~QLt(x, y)
QIsZero(x) == x[1] = 0

RECURSIVE QSum(_)
QSum(s) == IF s = << >> THEN Zero ELSE QAdd(s[1], QSum(Tail(s)))

RECURSIVE QMaxSeq(_)
QMaxSeq(s) ==
    IF Len(s) = 1 THEN s[1]
    ELSE LET m == QMaxSeq(Tail(s)) IN IF QLt(s[1], m) THEN m ELSE s[1]

\* Round x to a multiple of 1/k, ties to even: what "%.1f" (k = 10) and "%.2f"
\* (k = 100) print.
QRound(x, k) ==
    LET t == QMul(x, Int2Q(k))
        fl == t[1] \div t[2]
        twice == 2 * (t[1] - fl * t[2])
        up == \/ twice > t[2]
              \/ twice = t[2] /\ fl % 2 = 1
    IN  Q(IF up THEN fl + 1 ELSE fl, k)

NaN == <<0, 0>>
IsNaN(x) == x[2] = 0

None == << >>
IsNone(x) == x = << >>
NoDate == -1

\* Python truthiness of an optional float: None and 0.0 are false.
Truthy(x) == ~IsNone(x) /\ ~QIsZero(x)

(***************************************************************************)
(* Enums and the configuration.                                            *)
(***************************************************************************)
RebalanceFrequency ==
    {"Daily", "Weekly", "Monthly", "Quarterly", "Semi-Annual", "Annual"}

RebalanceTrigger == {"Scheduled", "Threshold", "Manual", "Volatility", "Performance"}
NoTrigger == "None"

RebalanceConfig(f, th, auto, tc, mta, mtp, vt, pt) ==
    [frequency |-> f, threshold_percent |-> th, auto_rebalance |-> auto,
     trading_cost_percent |-> tc, min_trade_amount |-> mta,
     max_trades_per_period |-> mtp, volatility_threshold |-> vt,
     performance_threshold |-> pt]

DefaultConfig ==
    RebalanceConfig("Monthly", Int2Q(5), FALSE, Q(1, 10), Int2Q(100), 20,
                    Q(2, 100), Q(5, 100))

(***************************************************************************)
(* Weight maps.  order is the sequence in which                            *)
(* set(list(current_weights.keys()) + list(target_weights.keys()))         *)
(* yields the symbols.  The code does not fix it; within one process it is *)
(* the same at every call, and set_order holds it.                         *)
(***************************************************************************)
Get(w, s) == IF s \in DOMAIN w THEN w[s] ELSE Zero

UnionKeys(cw, tw) == DOMAIN cw \cup DOMAIN tw

Range(seq) == {seq[i] : i \in DOMAIN seq}

Orders(S) == {o \in [1..Cardinality(S) -> S] : Range(o) = S}

EmptyMap == [s \in {} |-> Zero]

Symbols == {"A", "B"}

\* for symbol in set(...): the symbols of S as this process enumerates them.
SetOrder(S) == SelectSeq(set_order, LAMBDA s : s \in S)

(***************************************************************************)
(* _generate_rebalance_trades                                              *)
(***************************************************************************)
TradeValue(cw, tw, pv, s) == QMul(QSub(Get(tw, s), Get(cw, s)), pv)

\* Trade with 'BUY' if weight_diff >= 0.
Trade_buy_unchanged(cw, tw, pv, s) ==
    LET weight_diff == QSub(Get(tw, s), Get(cw, s))
        trade_value == QMul(weight_diff, pv)
    IN  [symbol |-> s,
         action |-> IF QGe(weight_diff, Zero) THEN "BUY" ELSE "SELL",
         current_weight |-> Get(cw, s),
         target_weight |-> Get(tw, s),
         trade_amount |-> QAbs(trade_value),
         trade_weight |-> QAbs(weight_diff)]

Trade(cw, tw, pv, s) ==
    LET weight_diff == QSub(Get(tw, s), Get(cw, s))
        trade_value == QMul(weight_diff, pv)
    IN  [symbol |-> s,
         action |-> IF QGt(weight_diff, Zero) THEN "BUY" ELSE "SELL",
         current_weight |-> Get(cw, s),
         target_weight |-> Get(tw, s),
         trade_amount |-> QAbs(trade_value),
         trade_weight |-> QAbs(weight_diff)]

\* AboveMinimum without the test of the minimum.
AboveMinimum_any(cfg, cw, tw, pv, s) == TRUE

\* if abs(trade_value) >= self.config.min_trade_amount
AboveMinimum(cfg, cw, tw, pv, s) ==
    QGe(QAbs(TradeValue(cw, tw, pv, s)), cfg.min_trade_amount)

RECURSIVE RequiredTrades(_, _, _, _, _)
RequiredTrades(cfg, cw, tw, pv, order) ==
    IF order = << >> THEN << >>
    ELSE LET rest == RequiredTrades(cfg, cw, tw, pv, Tail(order))
         IN  IF AboveMinimum(cfg, cw, tw, pv, Head(order))
             THEN <<Trade(cw, tw, pv, Head(order))>> \o rest
             ELSE rest

TradeCost(cfg, trade) ==
    QMul(trade.trade_amount, QDiv(cfg.trading_cost_percent, Hundred))

RECURSIVE CostOf(_, _)
CostOf(cfg, trades) ==
    IF trades = << >> THEN Zero
    ELSE QAdd(TradeCost(cfg, Head(trades)), CostOf(cfg, Tail(trades)))

\* trades.sort(key=lambda x: x['trade_amount'], reverse=True): a stable sort,
\* so equal amounts keep the order in which they were appended.
RECURSIVE InsertDesc(_, _)
InsertDesc(t, sorted) ==
    IF sorted = << >> THEN <<t>>
    ELSE IF QGe(Head(sorted).trade_amount, t.trade_amount)
         THEN <<Head(sorted)>> \o InsertDesc(t, Tail(sorted))
         ELSE <<t>> \o sorted

\* SortDesc leaving the trades in the order of the loop.
SortDesc_unsorted(trades) == trades

RECURSIVE SortDesc(_)
SortDesc(trades) ==
    IF trades = << >> THEN << >>
    ELSE InsertDesc(trades[Len(trades)], SortDesc(SubSeq(trades, 1, Len(trades) - 1)))

\* Slice keeping one element more.
Slice_one_more(s, k) == SubSeq(s, 1, IF k + 1 < Len(s) THEN k + 1 ELSE Len(s))

\* trades[:k], k negative included.
Slice(s, k) ==
    IF k >= 0 THEN SubSeq(s, 1, IF k < Len(s) THEN k ELSE Len(s))
    ELSE SubSeq(s, 1, IF Len(s) + k > 0 THEN Len(s) + k ELSE 0)

\* generate_rebalance_trades without the recalculation of lines 176-177.
generate_rebalance_trades_stale_cost(cfg, cw, tw, pv, order) ==
    LET required == RequiredTrades(cfg, cw, tw, pv, order)
        sorted == SortDesc(required)
    IN  [trades |-> IF Len(sorted) > cfg.max_trades_per_period
                    THEN Slice(sorted, cfg.max_trades_per_period) ELSE sorted,
         total_cost |-> CostOf(cfg, required)]

generate_rebalance_trades(cfg, cw, tw, pv, order) ==
    LET required == RequiredTrades(cfg, cw, tw, pv, order)
        sorted == SortDesc(required)
    IN  IF Len(sorted) > cfg.max_trades_per_period
        THEN LET limited == Slice(sorted, cfg.max_trades_per_period)
             IN  [trades |-> limited, total_cost |-> CostOf(cfg, limited)]
        ELSE [trades |-> sorted, total_cost |-> CostOf(cfg, required)]

(***************************************************************************)
(* analyze_drift                                                           *)
(***************************************************************************)
StockDrift(cw, tw, s) ==
    LET current_weight == Get(cw, s)
        target_weight == Get(tw, s)
        drift == QAbs(QSub(current_weight, target_weight))
    IN  [current_weight |-> current_weight,
         target_weight |-> target_weight,
         drift |-> drift,
         drift_percent |-> IF QGt(target_weight, Zero)
                           THEN QMul(QDiv(drift, target_weight), Hundred)
                           ELSE Zero]

NoLargest == [symbol |-> "None", drift |-> Zero]

RECURSIVE LargestDrift(_, _, _, _)
LargestDrift(cw, tw, order, acc) ==
    IF order = << >> THEN acc
    ELSE LET d == StockDrift(cw, tw, Head(order)).drift
         IN  LargestDrift(cw, tw, Tail(order),
                 IF QGt(d, acc.drift) THEN [symbol |-> Head(order), drift |-> d]
                 ELSE acc)

RECURSIVE TotalDrift(_, _, _)
TotalDrift(cw, tw, order) ==
    IF order = << >> THEN Zero
    ELSE QAdd(StockDrift(cw, tw, Head(order)).drift, TotalDrift(cw, tw, Tail(order)))

MaxDriftPercent(cw, tw, order) ==
    QMaxSeq([i \in DOMAIN order |-> StockDrift(cw, tw, order[i]).drift_percent])

\* analyze_drift comparing with >= instead of >.
analyze_drift_at_threshold(cfg, cw, tw, pv, order) ==
    LET stock_drifts == [s \in UnionKeys(cw, tw) |-> StockDrift(cw, tw, s)]
        empty == order = << >>
        needed == IF empty THEN FALSE
                  ELSE QGe(MaxDriftPercent(cw, tw, order), cfg.threshold_percent)
        gen == generate_rebalance_trades(cfg, cw, tw, pv, order)
    IN  [raised |-> IF empty THEN "ValueError" ELSE "",
         total_drift |-> TotalDrift(cw, tw, order),
         stock_drifts |-> stock_drifts,
         largest_drift |-> LargestDrift(cw, tw, order, NoLargest),
         rebalance_needed |-> needed,
         suggested_trades |-> IF needed THEN gen.trades ELSE << >>,
         estimated_cost |-> IF needed THEN gen.total_cost ELSE Zero]

\* The result of analyze_drift; raised names the exception when the call
\* does not return (max() of an empty list).
analyze_drift(cfg, cw, tw, pv, order) ==
    LET stock_drifts == [s \in UnionKeys(cw, tw) |-> StockDrift(cw, tw, s)]
        empty == order = << >>
        needed == IF empty THEN FALSE
                  ELSE QGt(MaxDriftPercent(cw, tw, order), cfg.threshold_percent)
        gen == generate_rebalance_trades(cfg, cw, tw, pv, order)
    IN  [raised |-> IF empty THEN "ValueError" ELSE "",
         total_drift |-> TotalDrift(cw, tw, order),
         stock_drifts |-> stock_drifts,
         largest_drift |-> LargestDrift(cw, tw, order, NoLargest),
         rebalance_needed |-> needed,
         suggested_trades |-> IF needed THEN gen.trades ELSE << >>,
         estimated_cost |-> IF needed THEN gen.total_cost ELSE Zero]

(***************************************************************************)
(* _is_scheduled_rebalance_due and should_rebalance                        *)
(***************************************************************************)
TicksPerDay == 2

FrequencyDays(f) ==
    CASE f = "Daily" -> 1
      [] f = "Weekly" -> 7
      [] f = "Monthly" -> 30
      [] f = "Quarterly" -> 90
      [] f = "Semi-Annual" -> 180
      [] f = "Annual" -> 365
      [] OTHER -> 30

\* timedelta.days: whole days, rounded down.
Days(delta) == delta \div TicksPerDay

\* Mutant: a started day counts as a day.
is_scheduled_rebalance_due_started_day(cfg, last, current_date) ==
    IF last = NoDate THEN TRUE
    ELSE (current_date - last + TicksPerDay - 1) \div TicksPerDay >= FrequencyDays(cfg.frequency)

is_scheduled_rebalance_due(cfg, last, current_date) ==
    IF last = NoDate THEN TRUE
    ELSE Days(current_date - last) >= FrequencyDays(cfg.frequency)

Reason(text, num) == [text |-> text, num |-> num]

\* The dummy portfolio value of should_rebalance's drift analysis.
DummyValue == Int2Q(100000)

should_rebalance(cfg, last, cw, tw, current_date, market_volatility, portfolio_performance, order) ==
    LET drift_analysis == analyze_drift(cfg, cw, tw, DummyValue, order)
    IN  IF is_scheduled_rebalance_due(cfg, last, current_date)
        THEN [raised |-> "", should |-> TRUE, trigger |-> "Scheduled",
              reason |-> Reason("Scheduled " \o cfg.frequency \o " rebalancing", Zero)]
        ELSE IF drift_analysis.raised # ""
        THEN [raised |-> drift_analysis.raised, should |-> FALSE,
              trigger |-> NoTrigger, reason |-> Reason("", Zero)]
        ELSE IF drift_analysis.rebalance_needed
        THEN [raised |-> "", should |-> TRUE, trigger |-> "Threshold",
              reason |-> Reason("Drift threshold exceeded: %",
                                QRound(MaxDriftPercent(cw, tw, order), 10))]
        ELSE IF Truthy(market_volatility)
                /\ QGt(market_volatility, cfg.volatility_threshold)
        THEN [raised |-> "", should |-> TRUE, trigger |-> "Volatility",
              reason |-> Reason("High market volatility: %",
                                QRound(QMul(market_volatility, Hundred), 100))]
        ELSE IF Truthy(portfolio_performance)
                /\ QGt(QAbs(portfolio_performance), cfg.performance_threshold)
        THEN [raised |-> "", should |-> TRUE, trigger |-> "Performance",
              reason |-> Reason(IF QGt(portfolio_performance, Zero)
                                THEN "Significant positive performance: %"
                                ELSE "Significant negative performance: %",
                                QRound(QMul(portfolio_performance, Hundred), 100))]
        ELSE [raised |-> "", should |-> FALSE, trigger |-> NoTrigger,
              reason |-> Reason("No rebalancing needed", Zero)]

(***************************************************************************)
(* execute_rebalance: the event it builds.                                 *)
(***************************************************************************)
\* Mutant: the event keeps the two dicts it was passed, not copies of them.
RebalanceEvent_keeps_arguments(cfg, cw, tw, pv, portfolio_name, trigger, reason, date, order) ==
    LET gen == generate_rebalance_trades(cfg, cw, tw, pv, order)
    IN  [date |-> date,
         trigger |-> trigger,
         portfolio_name |-> portfolio_name,
         trades |-> gen.trades,
         cost |-> gen.total_cost,
         reason |-> reason,
         before_weights |-> [ref |-> "current"],
         after_weights |-> [ref |-> "target"]]

\* Lines 271-280.  dict.copy() makes a new dict of the same items, so the
\* event holds the items themselves; a dict that is shared would be held as
\* [ref |-> the name of the caller's dict].
RebalanceEvent(cfg, cw, tw, pv, portfolio_name, trigger, reason, date, order) ==
    LET gen == generate_rebalance_trades(cfg, cw, tw, pv, order)
    IN  [date |-> date,
         trigger |-> trigger,
         portfolio_name |-> portfolio_name,
         trades |-> gen.trades,
         cost |-> gen.total_cost,
         reason |-> reason,
         before_weights |-> cw,
         after_weights |-> tw]

(***************************************************************************)
(* get_rebalance_calendar and export_rebalance_history                     *)
(***************************************************************************)
RECURSIVE CalendarFrom(_, _, _)
CalendarFrom(current_date, end_date, delta) ==
    IF current_date <= end_date
    THEN <<current_date>> \o CalendarFrom(current_date + delta, end_date, delta)
    ELSE << >>

get_rebalance_calendar(cfg, start_date, end_date) ==
    CalendarFrom(start_date, end_date, FrequencyDays(cfg.frequency) * TicksPerDay)

\* datetime.isoformat(): the text of a date, not the date.
IsoFormat(d) == <<"iso", d>>

EventData(event) ==
    [date |-> IsoFormat(event.date),
     trigger |-> event.trigger,
     portfolio_name |-> event.portfolio_name,
     trades |-> event.trades,
     cost |-> event.cost,
     reason |-> event.reason,
     before_weights |-> event.before_weights,
     after_weights |-> event.after_weights]

ExportData(cfg, history, last) ==
    [config |-> cfg,
     history |-> [i \in DOMAIN history |-> EventData(history[i])],
     last_rebalance_date |-> IF last = NoDate THEN <<"null">> ELSE IsoFormat(last)]

(***************************************************************************)
(* The optimizer (src/src/portfolio/optimizer.py).                         *)
(*                                                                         *)
(* numpy float64 arithmetic never raises: besides NaN it yields the        *)
(* infinities, modelled as <<1, 0>> and <<-1, 0>>.  A returns DataFrame is *)
(* [columns |-> sequence of symbols, rows |-> sequence of maps from the    *)
(* columns to floats]; a weight vector (np.ndarray) is a sequence aligned  *)
(* with the columns.                                                       *)
(***************************************************************************)
PosInf == <<1, 0>>
NegInf == <<-1, 0>>
IsFinite(x) == x[2] # 0
Sign(x) == IF x[1] > 0 THEN 1 ELSE IF x[1] < 0 THEN -1 ELSE 0

FAdd(x, y) ==
    IF x = NaN \/ y = NaN THEN NaN
    ELSE IF IsFinite(x) /\ IsFinite(y) THEN QAdd(x, y)
    ELSE IF IsFinite(x) THEN y
    ELSE IF IsFinite(y) \/ x = y THEN x
    ELSE NaN

FNeg(x) == <<-x[1], x[2]>>
FSub(x, y) == FAdd(x, FNeg(y))

FMul(x, y) ==
    IF x = NaN \/ y = NaN THEN NaN
    ELSE IF IsFinite(x) /\ IsFinite(y) THEN QMul(x, y)
    ELSE <<Sign(x) * Sign(y), 0>>

FDiv(x, y) ==
    IF x = NaN \/ y = NaN THEN NaN
    ELSE IF IsFinite(x) /\ IsFinite(y)
         THEN IF QIsZero(y) THEN <<Sign(x), 0>> ELSE QDiv(x, y)
    ELSE IF IsFinite(x) THEN Zero
    ELSE IF IsFinite(y) THEN <<Sign(x) * (IF Sign(y) < 0 THEN -1 ELSE 1), 0>>
    ELSE NaN

\* Comparisons of floats: false as soon as a NaN is involved.
FLe(x, y) ==
    IF x = NaN \/ y = NaN THEN FALSE
    ELSE IF IsFinite(x) /\ IsFinite(y) THEN QLe(x, y)
    ELSE x = y \/ x = NegInf \/ y = PosInf

RECURSIVE ISqrtIter(_, _)
ISqrtIter(n, x) ==
    LET y == (x + n \div x) \div 2
    IN  IF y >= x THEN x ELSE ISqrtIter(n, y)

\* The integer square root, rounded down.
ISqrt(n) == IF n = 0 THEN 0 ELSE ISqrtIter(n, n)

\* np.sqrt: exact on the squares of rationals, otherwise rounded down (to a
\* multiple of 1/(100 d) while the integers stay small, of 1/d beyond); NaN
\* for a negative argument.
FSqrt(x) ==
    LET k == IF x[1] * x[2] < 200000 THEN 100 ELSE 1
    IN  IF x = NaN \/ x = NegInf THEN NaN
        ELSE IF x = PosInf THEN PosInf
        ELSE IF x[1] < 0 THEN NaN
        ELSE Q(ISqrt(x[1] * x[2] * k * k), x[2] * k)

RECURSIVE FSum(_)
FSum(s) == IF s = << >> THEN Zero ELSE FAdd(s[1], FSum(Tail(s)))

\* What a pandas reduction sees with skipna=True.
SkipNa(s) == SelectSeq(s, LAMBDA x : x # NaN)

Column(returns, c) == [i \in DOMAIN returns.rows |-> returns.rows[i][c]]

\* Series.mean(): NaN when nothing is left.
Mean(s) ==
    LET v == SkipNa(s)
    IN  IF v = << >> THEN NaN ELSE FDiv(FSum(v), Int2Q(Len(v)))

\* DataFrame.cov(): over the rows where both columns hold a number, with
\* ddof = 1; NaN below two such rows.
Cov(returns, a, b) ==
    LET both == SelectSeq(returns.rows, LAMBDA r : r[a] # NaN /\ r[b] # NaN)
        n == Len(both)
        ma == Mean([i \in 1..n |-> both[i][a]])
        mb == Mean([i \in 1..n |-> both[i][b]])
    IN  IF n < 2 THEN NaN
        ELSE FDiv(FSum([i \in 1..n |-> FMul(FSub(both[i][a], ma), FSub(both[i][b], mb))]),
                  Int2Q(n - 1))

\* Series.std(): ddof = 1, NaN below two observations.
Std(s) ==
    LET v == SkipNa(s)
        n == Len(v)
        m == Mean(v)
    IN  IF n < 2 THEN NaN
        ELSE FSqrt(FDiv(FSum([i \in 1..n |-> FMul(FSub(v[i], m), FSub(v[i], m))]),
                        Int2Q(n - 1)))

\* Lines 48-49: the number of periods that annualizes the statistics.
TradingDays == 252

\* np.dot of a matrix (a function of two indices) and a vector.
Dot(u, v) == FSum([i \in DOMAIN u |-> FMul(u[i], v[i])])

\* Lines 48-61.  weights * mean_returns broadcasts, which needs as many
\* weights as columns; np.sum of the resulting Series skips its NaN.
calculate_portfolio_metrics(rfr, weights, returns) ==
    LET cols == returns.columns
        n == Len(cols)
        mean_returns == [i \in 1..n |-> FMul(Mean(Column(returns, cols[i])), Int2Q(TradingDays))]
        cov_matrix == [i \in 1..n |-> [j \in 1..n |->
                          FMul(Cov(returns, cols[i], cols[j]), Int2Q(TradingDays))]]
        portfolio_return == FSum(SkipNa([i \in 1..n |-> FMul(weights[i], mean_returns[i])]))
        portfolio_variance == Dot(weights, [i \in 1..n |-> Dot(cov_matrix[i], weights)])
        portfolio_volatility == FSqrt(portfolio_variance)
        sharpe_ratio == FDiv(FSub(portfolio_return, rfr), portfolio_volatility)
    IN  IF Len(weights) # n
        THEN [raised |-> "ValueError"]
        ELSE [raised |-> "",
              expected_return |-> portfolio_return,
              volatility |-> portfolio_volatility,
              sharpe_ratio |-> sharpe_ratio]

\* Lines 93-104: the objectives optimize_portfolio knows.
Objectives == {"sharpe", "min_volatility", "max_return"}

\* Line 82: the initial guess, equal weights.
InitialWeights(n) == [i \in 1..n |-> Q(1, n)]

\* Line 86: the equality constraint handed to the solver, fun(x) = 0.
ConstraintFun(x) == FSub(FSum(x), One)

\* Line 90: one (min_weight, max_weight) pair per asset.
Bounds_unit(n, min_weight, max_weight) == [i \in 1..n |-> <<Zero, One>>]

Bounds(n, min_weight, max_weight) == [i \in 1..n |-> <<min_weight, max_weight>>]

\* The points the solver is taken to return: the quarters, and the initial
\* guess.
Quarters == {Q(k, 4) : k \in 0..4}
Candidates(x0) == {x \in [1..Len(x0) -> Quarters] : TRUE} \cup {x0}

\* What SLSQP calls converged: every bound kept, the constraint within its
\* accuracy of 1e-6.
Converged(x, bounds) ==
    /\ \A i \in DOMAIN x : QLe(bounds[i][1], x[i]) /\ QLe(x[i], bounds[i][2])
    /\ QLe(QAbs(ConstraintFun(x)), Q(1, 1000000))

NotCalled == [success |-> FALSE, x |-> << >>, called |-> FALSE]

\* Lines 109-116: scipy.optimize.minimize(objective, x0, method='SLSQP',
\* bounds, constraints) is outside the repository.  Its result is any of the
\* outcomes its contract allows: success with a point that satisfies the
\* bounds and the constraint it was given, or failure with any point at all;
\* SLSQP rejects a lower bound above the upper one with a ValueError.
minimize(x0, bounds) ==
    IF \E i \in DOMAIN bounds : QGt(bounds[i][1], bounds[i][2])
    THEN {[success |-> FALSE, x |-> << >>, called |-> TRUE, raised |-> "ValueError"]}
    ELSE {[success |-> TRUE, x |-> x, called |-> TRUE, raised |-> ""] :
             x \in {c \in Candidates(x0) : Converged(c, bounds)}}
         \cup {[success |-> FALSE, x |-> x, called |-> TRUE, raised |-> ""] :
                  x \in Candidates(x0)}

\* The calls of minimize that optimize_portfolio reaches: none when line 82
\* or line 106 has raised before.
Solve(returns, optimization_target, min_weight, max_weight) ==
    LET n_assets == Len(returns.columns)
    IN  IF n_assets = 0 \/ optimization_target \notin Objectives
        THEN {NotCalled}
        ELSE minimize(InitialWeights(n_assets), Bounds(n_assets, min_weight, max_weight))

\* Lines 121-132.
PortfolioMetrics(rfr, weights, returns) ==
    LET m == calculate_portfolio_metrics(rfr, weights, returns)
    IN  [raised |-> "",
         expected_return |-> m.expected_return,
         volatility |-> m.volatility,
         sharpe_ratio |-> m.sharpe_ratio,
         weights |-> weights,
         symbols |-> returns.columns]

optimize_portfolio_equal_fallback(rfr, returns, optimization_target, min_weight, max_weight, result) ==
    LET n_assets == Len(returns.columns)
    IN  IF n_assets = 0 THEN [raised |-> "ZeroDivisionError"]
        ELSE IF optimization_target \notin Objectives THEN [raised |-> "ValueError"]
        ELSE IF result.raised # "" THEN [raised |-> result.raised]
        ELSE IF ~result.success THEN PortfolioMetrics(rfr, InitialWeights(n_assets), returns)
        ELSE PortfolioMetrics(rfr, result.x, returns)

\* Lines 79-132; result is what minimize returned (line 109).
optimize_portfolio(rfr, returns, optimization_target, min_weight, max_weight, result) ==
    LET n_assets == Len(returns.columns)
    IN  IF n_assets = 0 THEN [raised |-> "ZeroDivisionError"]
        ELSE IF optimization_target \notin Objectives THEN [raised |-> "ValueError"]
        ELSE IF result.raised # "" THEN [raised |-> result.raised]
        ELSE IF ~result.success THEN [raised |-> "RuntimeError"]
        ELSE PortfolioMetrics(rfr, result.x, returns)

\* Line 150 (and 180): (returns * weights).sum(axis=1); a row's NaN are
\* skipped by the sum.
PortfolioReturns(returns, weights) ==
    LET cols == returns.columns
    IN  [r \in DOMAIN returns.rows |->
            FSum(SkipNa([i \in DOMAIN cols |-> FMul(returns.rows[r][cols[i]], weights[i])]))]

\* scipy.stats.norm.ppf, to three decimals, at the levels the model calls it
\* with; it is infinite at 0 and 1 and NaN outside [0, 1].
NormPpf(p) ==
    IF QLt(p, Zero) \/ QGt(p, One) THEN NaN
    ELSE CASE p = Zero -> NegInf
           [] p = One -> PosInf
           [] p = Q(1, 100) -> Q(-2326, 1000)
           [] p = Q(1, 20) -> Q(-1645, 1000)
           [] p = Q(1, 2) -> Zero

\* Lines 149-160.
calculate_var(returns, weights, confidence_level, time_horizon) ==
    LET portfolio_returns == PortfolioReturns(returns, weights)
        portfolio_std == FMul(Std(portfolio_returns), FSqrt(Int2Q(time_horizon)))
        portfolio_mean == FMul(Mean(portfolio_returns), Int2Q(time_horizon))
        var == FAdd(FMul(NormPpf(confidence_level), portfolio_std), portfolio_mean)
    IN  IF Len(weights) # Len(returns.columns)
        THEN [raised |-> "ValueError"]
        ELSE [raised |-> "", value |-> FNeg(var)]

\* Lines 192-195: one value path, compounding the drawn returns.
RECURSIVE ValuePath(_, _)
ValuePath(portfolio_values, random_returns) ==
    IF random_returns = << >> THEN portfolio_values
    ELSE ValuePath(Append(portfolio_values,
                          FMul(portfolio_values[Len(portfolio_values)],
                               FAdd(One, random_returns[1]))),
                   Tail(random_returns))

RECURSIVE InsertAsc(_, _)
InsertAsc(x, sorted) ==
    IF sorted = << >> THEN <<x>>
    ELSE IF FLe(x, sorted[1]) THEN <<x>> \o sorted
    ELSE <<sorted[1]>> \o InsertAsc(x, Tail(sorted))

RECURSIVE SortAsc(_)
SortAsc(s) == IF s = << >> THEN << >> ELSE InsertAsc(s[1], SortAsc(Tail(s)))

\* np.percentile(a, q): linear interpolation between the two order statistics
\* around position q/100 * (n - 1); NaN as soon as a holds one.
Percentile(a, q) ==
    LET v == SortAsc(a)
        n == Len(a)
        lo == (q * (n - 1)) \div 100
        frac == Q(q * (n - 1) - 100 * lo, 100)
    IN  IF \E i \in DOMAIN a : a[i] = NaN THEN NaN
        ELSE IF lo + 1 >= n THEN v[n]
        ELSE FAdd(v[lo + 1], FMul(frac, FSub(v[lo + 2], v[lo + 1])))

\* Lines 179-211.  z[s][t] is the standard normal variate behind draw t of
\* simulation s: np.random.normal(mean, std, n) is mean + std * z.
monte_carlo_simulation(returns, weights, initial_investment, time_horizon, num_simulations, z) ==
    LET portfolio_returns == PortfolioReturns(returns, weights)
        mean_return == Mean(portfolio_returns)
        std_return == Std(portfolio_returns)
        simulation_results ==
            [s \in 1..num_simulations |->
                ValuePath(<<initial_investment>>,
                          [t \in 1..time_horizon |->
                              FAdd(mean_return, FMul(std_return, z[s][t]))])]
        final_values == [s \in 1..num_simulations |-> simulation_results[s][time_horizon + 1]]
    IN  IF Len(weights) # Len(returns.columns) THEN [raised |-> "ValueError"]
        ELSE IF num_simulations > 0 /\ time_horizon < 0 THEN [raised |-> "ValueError"]
        ELSE IF num_simulations <= 0 THEN [raised |-> "IndexError"]
        ELSE [raised |-> "",
              simulations |-> simulation_results,
              final_values |-> final_values,
              percentiles |-> [p \in {5, 25, 50, 75, 95} |-> Percentile(final_values, p)]]

(***************************************************************************)
(* The rebalancer as a state machine: its public methods.                  *)
(***************************************************************************)
\* Bound: direct calls of execute_rebalance and backtests start while the
\* history is shorter than this.
MaxHistory == 2

Idle == [pc |-> "idle"]

\* No call of execute_rebalance yet: no dicts passed.
NoMaps == [current |-> EmptyMap, target |-> EmptyMap]

\* PortfolioOptimizer.__init__'s default risk_free_rate.
DefaultRiskFreeRate == Q(2, 100)

Init(configs, orders) ==
    /\ config \in configs
    /\ set_order \in orders
    /\ rebalance_history = << >>
    /\ last_rebalance_date = NoDate
    /\ call = [op |-> "__init__"]
    /\ bt = Idle
    /\ risk_free_rate = DefaultRiskFreeRate
    /\ caller = NoMaps

\* A PortfolioOptimizer constructed with one of the given rates, next to a
\* rebalancer with the default configuration.
InitOptimizer(rates) ==
    /\ config = DefaultConfig
    /\ set_order = <<"A", "B">>
    /\ rebalance_history = << >>
    /\ last_rebalance_date = NoDate
    /\ call = [op |-> "__init__"]
    /\ bt = Idle
    /\ risk_free_rate \in rates
    /\ caller = NoMaps

AnalyzeDrift(currents, targets, values) ==
    /\ bt.pc = "idle"
    /\ \E cw \in currents, tw \in targets, pv \in values :
         call' = [op |-> "analyze_drift", current_weights |-> cw,
                  target_weights |-> tw, portfolio_value |-> pv,
                  ret |-> analyze_drift(config, cw, tw, pv,
                                        SetOrder(UnionKeys(cw, tw)))]
    /\ UNCHANGED <<fixed, rebalance_history, last_rebalance_date, bt, caller>>

GenerateRebalanceTrades(currents, targets, values) ==
    /\ bt.pc = "idle"
    /\ \E cw \in currents, tw \in targets, pv \in values :
         call' = [op |-> "_generate_rebalance_trades", current_weights |-> cw,
                  target_weights |-> tw, portfolio_value |-> pv,
                  ret |-> generate_rebalance_trades(config, cw, tw, pv,
                                                    SetOrder(UnionKeys(cw, tw)))]
    /\ UNCHANGED <<fixed, rebalance_history, last_rebalance_date, bt, caller>>

\* current_date = NoDate stands for the default None: datetime.now().
Now(d, dates) == IF d = NoDate THEN dates ELSE {d}

\* Mutant: the evaluator notes the date of the check as the last rebalance.
ShouldRebalance_marks_date(currents, targets, dates, vols, perfs) ==
    /\ bt.pc = "idle"
    /\ \E cw \in currents, tw \in targets, d \in dates \cup {NoDate},
          mv \in vols, pp \in perfs :
         \E now \in Now(d, dates) :
            LET current_date == IF d = NoDate THEN now ELSE d
                order == SetOrder(UnionKeys(cw, tw))
            IN  /\ call' = [op |-> "should_rebalance", current_weights |-> cw,
                            target_weights |-> tw, current_date |-> current_date,
                            market_volatility |-> mv, portfolio_performance |-> pp,
                            ret |-> should_rebalance(config, last_rebalance_date, cw, tw,
                                                     current_date, mv, pp, order)]
                /\ last_rebalance_date' = current_date
    /\ UNCHANGED <<fixed, rebalance_history, bt, caller>>

ShouldRebalance(currents, targets, dates, vols, perfs) ==
    /\ bt.pc = "idle"
    /\ \E cw \in currents, tw \in targets, d \in dates \cup {NoDate},
          mv \in vols, pp \in perfs :
         \E now \in Now(d, dates) :
            LET current_date == IF d = NoDate THEN now ELSE d
                order == SetOrder(UnionKeys(cw, tw))
            IN  call' = [op |-> "should_rebalance", current_weights |-> cw,
                         target_weights |-> tw, current_date |-> current_date,
                         market_volatility |-> mv, portfolio_performance |-> pp,
                         ret |-> should_rebalance(config, last_rebalance_date, cw, tw,
                                                  current_date, mv, pp, order)]
    /\ UNCHANGED <<fixed, rebalance_history, last_rebalance_date, bt, caller>>

\* Mutant: the event is recorded only under auto_rebalance.
execute_rebalance_if_auto(cw, tw, pv, portfolio_name, trigger, reason, current_date, order) ==
    LET event == RebalanceEvent(config, cw, tw, pv, portfolio_name, trigger,
                                reason, current_date, order)
    IN  /\ rebalance_history' = IF config.auto_rebalance
                                THEN Append(rebalance_history, event)
                                ELSE rebalance_history
        /\ last_rebalance_date' = current_date

\* Mutant: the history keeps the latest event only.
execute_rebalance_keep_last(cw, tw, pv, portfolio_name, trigger, reason, current_date, order) ==
    LET event == RebalanceEvent(config, cw, tw, pv, portfolio_name, trigger,
                                reason, current_date, order)
    IN  /\ rebalance_history' = <<event>>
        /\ last_rebalance_date' = current_date

\* Mutant: the last rebalance date only ever moves forward.
execute_rebalance_latest_date(cw, tw, pv, portfolio_name, trigger, reason, current_date, order) ==
    LET event == RebalanceEvent(config, cw, tw, pv, portfolio_name, trigger,
                                reason, current_date, order)
    IN  /\ rebalance_history' = Append(rebalance_history, event)
        /\ last_rebalance_date' = IF current_date < last_rebalance_date
                                  THEN last_rebalance_date ELSE current_date

execute_rebalance(cw, tw, pv, portfolio_name, trigger, reason, current_date, order) ==
    LET event == RebalanceEvent(config, cw, tw, pv, portfolio_name, trigger,
                                reason, current_date, order)
    IN  /\ rebalance_history' = Append(rebalance_history, event)
        /\ last_rebalance_date' = current_date

ExecuteRebalance(currents, targets, values, names, triggers, reasons, dates) ==
    /\ bt.pc = "idle"
    /\ Len(rebalance_history) < MaxHistory
    /\ \E cw \in currents, tw \in targets, pv \in values, name \in names,
          trigger \in triggers, reason \in reasons, d \in dates \cup {NoDate} :
         \E now \in Now(d, dates) :
            LET current_date == IF d = NoDate THEN now ELSE d
                order == SetOrder(UnionKeys(cw, tw))
            IN  /\ execute_rebalance(cw, tw, pv, name, trigger, reason,
                                     current_date, order)
                /\ call' = [op |-> "execute_rebalance", current_weights |-> cw,
                            target_weights |-> tw, portfolio_value |-> pv,
                            portfolio_name |-> name, trigger |-> trigger,
                            reason |-> reason, current_date |-> current_date,
                            ret |-> RebalanceEvent(config, cw, tw, pv, name, trigger,
                                                   reason, current_date, order)]
                /\ caller' = [current |-> cw, target |-> tw]
    /\ UNCHANGED <<fixed, bt>>

GetRebalanceCalendar(dates) ==
    /\ bt.pc = "idle"
    /\ \E start_date \in dates, end_date \in dates :
         call' = [op |-> "get_rebalance_calendar", start_date |-> start_date,
                  end_date |-> end_date,
                  ret |-> get_rebalance_calendar(config, start_date, end_date)]
    /\ UNCHANGED <<fixed, rebalance_history, last_rebalance_date, bt, caller>>

ExportRebalanceHistory(filenames) ==
    /\ bt.pc = "idle"
    /\ \E filename \in filenames :
         call' = [op |-> "export_rebalance_history", filename |-> filename,
                  written |-> ExportData(config, rebalance_history, last_rebalance_date),
                  ret |-> IF filename = "" THEN "rebalance_history_<now>.json"
                          ELSE filename]
    /\ UNCHANGED <<fixed, rebalance_history, last_rebalance_date, bt, caller>>

(***************************************************************************)
(* backtest_rebalancing.  price_data is [index, columns, rows]: the dates   *)
(* in increasing order, the column names, and one row of prices per date.  *)
(* Prices are positive or NaN; the first row of a window holds no NaN.     *)
(***************************************************************************)
RebalanceCap == 100

Extend(f, k, v) == [s \in DOMAIN f \cup {k} |-> IF s = k THEN v ELSE f[s]]

InSeq(x, seq) == \E i \in DOMAIN seq : seq[i] = x

\* price_data.loc[start_date:end_date], None standing for the first/last date.
Window(data, start_date, end_date) ==
    LET lo == IF start_date = NoDate THEN data.index[1] ELSE start_date
        hi == IF end_date = NoDate THEN data.index[Len(data.index)] ELSE end_date
        keep == {i \in DOMAIN data.index : lo <= data.index[i] /\ data.index[i] <= hi}
        first == CHOOSE i \in keep : \A j \in keep : i <= j
        last == CHOOSE i \in keep : \A j \in keep : j <= i
    IN  IF keep = {} THEN [index |-> << >>, columns |-> data.columns, rows |-> << >>]
        ELSE [index |-> SubSeq(data.index, first, last),
              columns |-> data.columns,
              rows |-> SubSeq(data.rows, first, last)]

\* InitialShares buying at the last row's prices instead of the first's.
RECURSIVE InitialShares_at_last_price(_, _, _, _, _)
InitialShares_at_last_price(data, tw, tw_order, initial_value, acc) ==
    IF tw_order = << >> THEN acc
    ELSE LET symbol == Head(tw_order)
             initial_price == data.rows[Len(data.rows)][symbol]
             shares == QDiv(QMul(initial_value, tw[symbol]), initial_price)
         IN  InitialShares_at_last_price(data, tw, Tail(tw_order), initial_value,
                 IF symbol \in data.columns /\ ~IsNaN(initial_price)
                 THEN [map |-> Extend(acc.map, symbol, shares),
                       order |-> Append(acc.order, symbol)]
                 ELSE acc)

\* Lines 320-325 (and 367-372): shares bought at the first row's prices,
\* as the dict and its insertion order.
RECURSIVE InitialShares(_, _, _, _, _)
InitialShares(data, tw, tw_order, initial_value, acc) ==
    IF tw_order = << >> THEN acc
    ELSE LET symbol == Head(tw_order)
             initial_price == data.rows[1][symbol]
             shares == QDiv(QMul(initial_value, tw[symbol]), initial_price)
         IN  InitialShares(data, tw, Tail(tw_order), initial_value,
                 IF symbol \in data.columns
                 THEN [map |-> Extend(acc.map, symbol, shares),
                       order |-> Append(acc.order, symbol)]
                 ELSE acc)

NoShares == [map |-> EmptyMap, order |-> << >>]

Priced(prices, symbol) == symbol \in DOMAIN prices /\ ~IsNaN(prices[symbol])

\* value / max(current_value, 1e-10).  Every value of the model is 0 or far
\* above 1e-10, and value <= current_value, so the floor is taken only at 0/1e-10.
OverFloor(value, current_value) ==
    IF QLe(current_value, Zero) THEN Zero ELSE QDiv(value, current_value)

\* Lines 330-337: the loop over current_shares.items().
RECURSIVE Valuation(_, _, _, _)
Valuation(shares, order, prices, acc) ==
    IF order = << >> THEN acc
    ELSE LET symbol == Head(order)
             value == QMul(shares[symbol], prices[symbol])
             current_value == QAdd(acc.current_value, value)
         IN  Valuation(shares, Tail(order), prices,
                 IF Priced(prices, symbol)
                 THEN [current_value |-> current_value,
                       current_weights |->
                           Extend(acc.current_weights, symbol,
                                  OverFloor(value, current_value))]
                 ELSE acc)

NoValue == [current_value |-> Zero, current_weights |-> EmptyMap]

\* ResetShares sizing the positions on the first target asset's weight.
RECURSIVE ResetShares_one_weight(_, _, _, _, _)
ResetShares_one_weight(sh, tw, tw_order, prices, current_value) ==
    IF tw_order = << >> THEN sh
    ELSE LET symbol == Head(tw_order)
             target_value == QMul(current_value, tw[CHOOSE s \in DOMAIN tw : TRUE])
         IN  ResetShares_one_weight(
                 IF Priced(prices, symbol)
                 THEN [map |-> Extend(sh.map, symbol, QDiv(target_value, prices[symbol])),
                       order |-> IF InSeq(symbol, sh.order) THEN sh.order
                                 ELSE Append(sh.order, symbol)]
                 ELSE sh,
                 tw, Tail(tw_order), prices, current_value)

\* Lines 356-360: the shares after a rebalance.
RECURSIVE ResetShares(_, _, _, _, _)
ResetShares(sh, tw, tw_order, prices, current_value) ==
    IF tw_order = << >> THEN sh
    ELSE LET symbol == Head(tw_order)
             target_value == QMul(current_value, tw[symbol])
         IN  ResetShares(
                 IF Priced(prices, symbol)
                 THEN [map |-> Extend(sh.map, symbol, QDiv(target_value, prices[symbol])),
                       order |-> IF InSeq(symbol, sh.order) THEN sh.order
                                 ELSE Append(sh.order, symbol)]
                 ELSE sh,
                 tw, Tail(tw_order), prices, current_value)

\* Lines 374-379: the value of the buy-and-hold shares on one row.
RECURSIVE HoldValue(_, _, _)
HoldValue(shares, order, prices) ==
    IF order = << >> THEN Zero
    ELSE QAdd(IF Priced(prices, Head(order))
              THEN QMul(shares[Head(order)], prices[Head(order)]) ELSE Zero,
              HoldValue(shares, Tail(order), prices))

\* BuyHoldValues buying the baseline's shares anew at each row's prices.
BuyHoldValues_rebought(data, tw, tw_order, initial_value) ==
    [i \in DOMAIN data.rows |->
        LET at == [data EXCEPT !.rows = SubSeq(data.rows, i, Len(data.rows))]
            bh == InitialShares(at, tw, tw_order, initial_value, NoShares)
        IN  HoldValue(bh.map, bh.order, data.rows[i])]

BuyHoldValues(data, tw, tw_order, initial_value) ==
    LET bh == InitialShares(data, tw, tw_order, initial_value, NoShares)
    IN  [i \in DOMAIN data.rows |-> HoldValue(bh.map, bh.order, data.rows[i])]

\* Lines 384-403, without the entries that take roots or powers of floats
\* (annualized_return, volatility, sharpe_ratio) and without max_drawdown.
Results(f) ==
    LET final == f.portfolio_values[Len(f.portfolio_values)]
        bhv == BuyHoldValues(f.data, f.target_weights, f.tw_order, f.initial_value)
        total_return == QSub(QDiv(final, f.initial_value), One)
        bh_return == QSub(QDiv(bhv[Len(bhv)], f.initial_value), One)
    IN  [raised |-> "",
         initial_value |-> f.initial_value,
         final_value |-> final,
         total_return |-> total_return,
         num_rebalances |-> Len(f.rebalance_dates),
         total_costs |-> f.total_costs,
         cost_drag |-> QDiv(f.total_costs, f.initial_value),
         rebalance_dates |-> f.rebalance_dates,
         portfolio_values |-> f.portfolio_values,
         buy_hold_return |-> bh_return,
         excess_return |-> QSub(total_return, bh_return),
         buy_hold_values |-> bhv]

Failed(exc) == [op |-> "backtest_rebalancing", ret |-> [raised |-> exc]]

\* Lines 306-325: the window, the empty accumulators and the initial shares.
\* An empty window fails at iloc[0] (or at portfolio_values[-1]).
BacktestStart(series, maps, values, starts, ends) ==
    /\ bt.pc = "idle"
    /\ Len(rebalance_history) < MaxHistory
    /\ \E data \in series, tw \in maps, initial_value \in values,
          start_date \in starts, end_date \in ends :
         \E tw_order \in Orders(DOMAIN tw) :
            LET backtest_data == Window(data, start_date, end_date)
                sh == InitialShares(backtest_data, tw, tw_order, initial_value, NoShares)
            IN  IF backtest_data.rows = << >>
                THEN /\ call' = Failed("IndexError")
                     /\ bt' = bt
                ELSE /\ call' = [op |-> "backtest_rebalancing", ret |-> [raised |-> "running"]]
                     /\ bt' = [pc |-> "loop",
                               data |-> backtest_data,
                               target_weights |-> tw,
                               tw_order |-> tw_order,
                               initial_value |-> initial_value,
                               i |-> 0,
                               portfolio_values |-> << >>,
                               rebalance_dates |-> << >>,
                               total_costs |-> Zero,
                               current_shares |-> sh.map,
                               shares_order |-> sh.order,
                               current_value |-> Zero,
                               current_weights |-> EmptyMap,
                               should_rebal |-> FALSE,
                               rebalanced |-> FALSE,
                               triggered |-> 0]
    /\ UNCHANGED <<fixed, rebalance_history, last_rebalance_date, caller>>

\* Lines 328-360: one pass of the loop over backtest_data.iterrows().
\* bt.i is the number of rows done; current_value, current_weights and
\* should_rebal are the loop's locals as the pass leaves them; rebalanced tells
\* whether the pass took the branch of line 346, and triggered counts the
\* passes in which should_rebalance returned True.
PassDate == bt.data.index[bt.i + 1]
PassPrices == bt.data.rows[bt.i + 1]
PassValuation == Valuation(bt.current_shares, bt.shares_order, PassPrices, NoValue)

PassDecision(val, order) ==
    should_rebalance(config, last_rebalance_date, val.current_weights,
                     bt.target_weights, PassDate, None, None, order)

PassEvent(val, d, order) ==
    RebalanceEvent(config, val.current_weights, bt.target_weights, val.current_value,
                   "Backtest Portfolio", d.trigger, d.reason, PassDate, order)

\* PassReset leaving the shares as they were.
PassReset_keeps(val) == [map |-> bt.current_shares, order |-> bt.shares_order]

PassReset(val) ==
    ResetShares([map |-> bt.current_shares, order |-> bt.shares_order],
                bt.target_weights, bt.tw_order, PassPrices, val.current_value)

\* Lines 339-344: the value is recorded and the trigger evaluator consulted.
PassSeen(val, d) ==
    [bt EXCEPT !.i = bt.i + 1,
               !.portfolio_values = Append(bt.portfolio_values, val.current_value),
               !.current_value = val.current_value,
               !.current_weights = val.current_weights,
               !.should_rebal = d.should,
               !.rebalanced = FALSE,
               !.triggered = IF d.should THEN bt.triggered + 1 ELSE bt.triggered]

\* PassRebalanced with total_costs = event.cost instead of += event.cost.
PassRebalanced_last_cost(seen, event, sh) ==
    [seen EXCEPT !.rebalance_dates = Append(bt.rebalance_dates, PassDate),
                 !.total_costs = event.cost,
                 !.current_shares = sh.map,
                 !.shares_order = sh.order,
                 !.rebalanced = TRUE]

\* PassRebalanced recording the value net of the trading cost.
PassRebalanced_net_of_cost(seen, event, sh) ==
    [seen EXCEPT !.rebalance_dates = Append(bt.rebalance_dates, PassDate),
                 !.total_costs = QAdd(bt.total_costs, event.cost),
                 !.portfolio_values = Append(bt.portfolio_values,
                                             QSub(seen.current_value, event.cost)),
                 !.current_shares = sh.map,
                 !.shares_order = sh.order,
                 !.rebalanced = TRUE]

\* Lines 346-360: the rebalance of the pass.
PassRebalanced(seen, event, sh) ==
    [seen EXCEPT !.rebalance_dates = Append(bt.rebalance_dates, PassDate),
                 !.total_costs = QAdd(bt.total_costs, event.cost),
                 !.current_shares = sh.map,
                 !.shares_order = sh.order,
                 !.rebalanced = TRUE]

\* The cap of line 346 compared with <= instead of <.
UnderCap_inclusive == Len(bt.rebalance_dates) <= RebalanceCap

UnderCap == Len(bt.rebalance_dates) < RebalanceCap

BacktestStep ==
    /\ bt.pc = "loop"
    /\ bt.i < Len(bt.data.rows)
    /\ \E val \in {PassValuation} :
       \E order \in {SetOrder(UnionKeys(val.current_weights, bt.target_weights))} :
       \E d \in {PassDecision(val, order)} :
       \E seen \in {PassSeen(val, d)} :
          \/ /\ d.raised # ""
             /\ call' = Failed(d.raised)
             /\ bt' = Idle
             /\ UNCHANGED <<rebalance_history, last_rebalance_date, caller>>
          \/ /\ d.raised = ""
             /\ d.should /\ UnderCap
             /\ execute_rebalance(val.current_weights, bt.target_weights,
                                  val.current_value, "Backtest Portfolio",
                                  d.trigger, d.reason, PassDate, order)
             /\ bt' = PassRebalanced(seen, PassEvent(val, d, order), PassReset(val))
             /\ caller' = [current |-> val.current_weights, target |-> bt.target_weights]
             /\ call' = call
          \/ /\ d.raised = ""
             /\ ~(d.should /\ UnderCap)
             /\ bt' = seen
             /\ UNCHANGED <<rebalance_history, last_rebalance_date, call, caller>>
    /\ UNCHANGED fixed

\* Lines 362-405: after the loop, the report.
BacktestFinish ==
    /\ bt.pc = "loop"
    /\ bt.i = Len(bt.data.rows)
    /\ call' = [op |-> "backtest_rebalancing", ret |-> Results(bt)]
    /\ bt' = Idle
    /\ UNCHANGED <<fixed, rebalance_history, last_rebalance_date, caller>>

(***************************************************************************)
(* The optimizer's public methods.  They keep no state: each call leaves   *)
(* its arguments and its result in call.                                   *)
(***************************************************************************)
CalculatePortfolioMetrics(vectors, tables) ==
    /\ \E weights \in vectors, returns \in tables :
         call' = [op |-> "calculate_portfolio_metrics", weights |-> weights,
                  returns |-> returns,
                  ret |-> calculate_portfolio_metrics(risk_free_rate, weights, returns)]
    /\ UNCHANGED <<fixed, rebalance_history, last_rebalance_date, bt, caller>>

\* result is the outcome of the call of minimize at line 109.
OptimizePortfolio(tables, targets, mins, maxs) ==
    /\ \E returns \in tables, optimization_target \in targets,
          min_weight \in mins, max_weight \in maxs :
         \E result \in Solve(returns, optimization_target, min_weight, max_weight) :
            call' = [op |-> "optimize_portfolio", returns |-> returns,
                     optimization_target |-> optimization_target,
                     min_weight |-> min_weight, max_weight |-> max_weight,
                     result |-> result,
                     ret |-> optimize_portfolio(risk_free_rate, returns, optimization_target,
                                                min_weight, max_weight, result)]
    /\ UNCHANGED <<fixed, rebalance_history, last_rebalance_date, bt, caller>>

CalculateVar(tables, vectors, levels, horizons) ==
    /\ \E returns \in tables, weights \in vectors, confidence_level \in levels,
          time_horizon \in horizons :
         call' = [op |-> "calculate_var", returns |-> returns, weights |-> weights,
                  confidence_level |-> confidence_level, time_horizon |-> time_horizon,
                  ret |-> calculate_var(returns, weights, confidence_level, time_horizon)]
    /\ UNCHANGED <<fixed, rebalance_history, last_rebalance_date, bt, caller>>

\* z: the variates np.random.normal draws during the call (line 189).
MonteCarloSimulation(tables, vectors, investments, horizons, runs, variates) ==
    /\ \E returns \in tables, weights \in vectors, initial_investment \in investments,
          time_horizon \in horizons, num_simulations \in runs :
         \E z \in [1..num_simulations -> [1..time_horizon -> variates]] :
            call' = [op |-> "monte_carlo_simulation", returns |-> returns,
                     weights |-> weights, initial_investment |-> initial_investment,
                     time_horizon |-> time_horizon, num_simulations |-> num_simulations,
                     ret |-> monte_carlo_simulation(returns, weights, initial_investment,
                                                    time_horizon, num_simulations, z)]
    /\ UNCHANGED <<fixed, rebalance_history, last_rebalance_date, bt, caller>>

(***************************************************************************)
(* Inputs of the bounded model.                                            *)
(***************************************************************************)
W1(a) == [s \in {"A"} |-> a]
W2(a, b) == [s \in {"A", "B"} |-> IF s = "A" THEN a ELSE b]

Day(n) == n * TicksPerDay

ManualReason == Reason("Manual rebalance", Zero)

ApiConfigs ==
    {DefaultConfig,
     RebalanceConfig("Weekly", Zero, TRUE, Int2Q(1), Zero, 1, Q(2, 100), Q(5, 100))}

ApiCurrents == {W2(Q(1, 2), Q(1, 2)), W2(Q(3, 5), Q(2, 5))}
ApiTargets == {W2(Q(1, 2), Q(1, 2))}
ApiValues == {Int2Q(10000)}
ApiDates == {0, Day(30)}
ApiVols == {None}
ApiPerfs == {None, Q(-6, 100)}

\* A price table of n rows, the dates step ticks apart.
Table(cols, n, step, first, later) ==
    {[index |-> [i \in 1..n |-> (i - 1) * step], columns |-> cols, rows |-> r] :
        r \in {x \in [1..n -> first \cup later] :
                  /\ x[1] \in first
                  /\ \A i \in 2..n : x[i] \in later}}

P2(a, b) == W2(Int2Q(a), Int2Q(b))

ApiSeries == Table({"A", "B"}, 2, Day(1), {P2(2, 2)}, {P2(2, 1)})

ApiNames == {"Main"}
ApiTriggers == {"Manual"}
ApiReasons == {ManualReason}
ApiFilenames == {"", "history.json"}

\* start_date and end_date left to their default, None.
AnyDate == {NoDate}

Next ==
    \/ AnalyzeDrift(ApiCurrents, ApiTargets, ApiValues)
    \/ ShouldRebalance(ApiCurrents, ApiTargets, ApiDates, ApiVols, ApiPerfs)
    \/ ExecuteRebalance(ApiCurrents, ApiTargets, ApiValues, ApiNames, ApiTriggers,
                        ApiReasons, ApiDates)
    \/ GetRebalanceCalendar(ApiDates)
    \/ ExportRebalanceHistory(ApiFilenames)
    \/ BacktestStart(ApiSeries, ApiTargets, ApiValues, AnyDate, AnyDate)
    \/ BacktestStep
    \/ BacktestFinish

Spec == Init(ApiConfigs, Orders(Symbols)) /\ [][Next]_vars

(***************************************************************************)
(* The trigger evaluator on its own: every frequency, dates on both sides  *)
(* of the schedule, drifting, balanced and empty weight maps.              *)
(***************************************************************************)
TriggerConfigs ==
    {RebalanceConfig(f, Int2Q(5), FALSE, Q(1, 10), Int2Q(100), 20, Q(2, 100), Q(5, 100)) :
        f \in RebalanceFrequency}

Balanced == W2(Q(1, 2), Q(1, 2))
Drifted == W2(Q(3, 5), Q(2, 5))

\* One tick before the schedule's length after date 0, that length, one tick more.
TriggerDates == {Day(FrequencyDays(config.frequency)) + k : k \in {-1, 0, 1}}

TriggerCurrents == {EmptyMap, Balanced, Drifted}
TriggerTargets == {EmptyMap, Balanced}
TriggerVols == {None, Q(3, 100)}
TriggerPerfs == {None, Q(-6, 100)}
ExecuteCurrents == {Drifted}
ExecuteTargets == {Balanced}
ExecuteDates == {0, 1}

NextTrigger ==
    \/ ExecuteRebalance(ExecuteCurrents, ExecuteTargets, ApiValues, ApiNames,
                        ApiTriggers, ApiReasons, ExecuteDates)
    \/ ShouldRebalance(TriggerCurrents, TriggerTargets, TriggerDates, TriggerVols,
                       TriggerPerfs)

SpecTrigger == Init(TriggerConfigs, {<<"A", "B">>}) /\ [][NextTrigger]_vars

(***************************************************************************)
(* Backtests over short price tables: the scenario of the contract, tables *)
(* with a price that moves, with a missing price (NaN) on a later date and *)
(* without a column for a target asset; target maps that sum to 1, that do *)
(* not, and the empty one.                                                 *)
(***************************************************************************)
NRows == 3

P1(a) == W1(Int2Q(a))
P2NaN(a) == W2(Int2Q(a), NaN)

\* A = [100, 110, 105], B = [50, 48, 52] on three consecutive days.
ScenarioData ==
    [index |-> <<0, Day(1), Day(2)>>, columns |-> {"A", "B"},
     rows |-> <<P2(100, 50), P2(110, 48), P2(105, 52)>>]

BacktestSeries ==
    {ScenarioData}
    \cup Table({"A", "B"}, NRows, Day(1), {P2(2, 2)}, {P2(2, 1), P2NaN(2)})
    \cup Table({"A"}, NRows, Day(1), {P1(2)}, {P1(1)})

BacktestTargets == {W2(Q(1, 2), Q(1, 2)), W2(Q(1, 2), Q(1, 4)), W1(One), EmptyMap}

\* The default config, and one whose threshold no drift of these runs exceeds.
BacktestConfigs ==
    {DefaultConfig,
     RebalanceConfig("Monthly", Int2Q(120), FALSE, Q(1, 10), Int2Q(100), 20,
                     Q(2, 100), Q(5, 100))}

NextBacktest ==
    \/ BacktestStart(BacktestSeries, BacktestTargets, ApiValues, AnyDate, AnyDate)
    \/ BacktestStep
    \/ BacktestFinish

SpecBacktest == Init(BacktestConfigs, Orders(Symbols)) /\ [][NextBacktest]_vars

(***************************************************************************)
(* Backtests over a window longer than the cap of rebalances: constant     *)
(* prices on LongRows consecutive days, with a Daily schedule, with a      *)
(* threshold of 0 and with the default config.                             *)
(***************************************************************************)
LongRows == 102

LongSeries == Table({"A", "B"}, LongRows, Day(1), {P2(2, 2)}, {P2(2, 2)})

CapConfigs ==
    {DefaultConfig,
     RebalanceConfig("Daily", Int2Q(5), FALSE, Q(1, 10), Int2Q(100), 20,
                     Q(2, 100), Q(5, 100)),
     RebalanceConfig("Monthly", Zero, FALSE, Q(1, 10), Int2Q(100), 20,
                     Q(2, 100), Q(5, 100))}

CapTargets == {W2(Q(1, 2), Q(1, 2)), W1(One)}

NextCap ==
    \/ BacktestStart(LongSeries, CapTargets, ApiValues, AnyDate, AnyDate)
    \/ BacktestStep
    \/ BacktestFinish

SpecCap == Init(CapConfigs, Orders(Symbols)) /\ [][NextCap]_vars

(***************************************************************************)
(* The trade generator and the drift analysis over three symbols: weight   *)
(* maps equal to the target, off it by less than, exactly and more than    *)
(* the minimum trade and the threshold, with a symbol missing on either    *)
(* side, and empty; configs that differ in min_trade_amount,               *)
(* max_trades_per_period and trading_cost_percent.                         *)
(***************************************************************************)
TradeSymbols == {"A", "B", "C"}

W3(a, b, c) == [s \in TradeSymbols |-> IF s = "A" THEN a ELSE IF s = "B" THEN b ELSE c]

TradeTarget == W3(Q(1, 2), Q(3, 10), Q(1, 5))

TradeCurrents ==
    {TradeTarget,
     W3(Q(51, 100), Q(3, 10), Q(19, 100)),
     W3(Q(101, 200), Q(1, 5), Q(59, 200)),
     W3(Q(2, 5), Q(1, 5), Q(2, 5)),
     W3(Q(3, 10), Q(7, 20), Q(7, 20)),
     W3(Q(21, 40), Q(3, 10), Q(1, 5)),
     W2(Q(1, 2), Q(3, 10)),
     EmptyMap}

TradeTargets == {TradeTarget, W2(Q(1, 2), Q(3, 10)), EmptyMap}

TradeValues == {Int2Q(10000)}

TradeConfigs ==
    {DefaultConfig,
     RebalanceConfig("Monthly", Int2Q(5), FALSE, Q(1, 10), Int2Q(100), 2, Q(2, 100), Q(5, 100)),
     RebalanceConfig("Monthly", Int2Q(5), FALSE, Q(1, 10), Int2Q(100), 1, Q(2, 100), Q(5, 100)),
     RebalanceConfig("Monthly", Zero, FALSE, Int2Q(1), Zero, 2, Q(2, 100), Q(5, 100)),
     RebalanceConfig("Monthly", Zero, FALSE, Int2Q(1), Zero, 0, Q(2, 100), Q(5, 100)),
     RebalanceConfig("Monthly", Int2Q(5), FALSE, Q(1, 10), Int2Q(100), -1, Q(2, 100), Q(5, 100))}

ExecutedCurrents == {W3(Q(3, 10), Q(7, 20), Q(7, 20))}
ExecutedTargets == {TradeTarget}
ExecutedValues == {Int2Q(10000)}
ExecutedDates == {0}

NextTrades ==
    \/ GenerateRebalanceTrades(TradeCurrents, TradeTargets, TradeValues)
    \/ AnalyzeDrift(TradeCurrents, TradeTargets, TradeValues)
    \/ ExecuteRebalance(ExecutedCurrents, ExecutedTargets, ExecutedValues, ApiNames,
                        ApiTriggers, ApiReasons, ExecutedDates)

SpecTrades == Init(TradeConfigs, Orders(TradeSymbols)) /\ [][NextTrades]_vars

(***************************************************************************)
(* The volatility and performance checks of the trigger evaluator: weight  *)
(* maps that are not empty, a volatility that is absent, 0, below and      *)
(* above the threshold, and thresholds above and below 0.                  *)
(***************************************************************************)
VolatilityConfigs ==
    {DefaultConfig,
     RebalanceConfig("Monthly", Int2Q(5), FALSE, Q(1, 10), Int2Q(100), 20, Q(-1, 100), Q(5, 100))}

VolatilityCurrents == {Balanced, Drifted}
VolatilityTargets == {Balanced}
VolatilityDates == {0, Day(1), Day(30)}
VolatilityVols == {None, Zero, Q(1, 100), Q(3, 100)}
VolatilityPerfs == {None, Q(-6, 100)}

NextVolatility ==
    \/ ExecuteRebalance(ExecuteCurrents, ExecuteTargets, ApiValues, ApiNames,
                        ApiTriggers, ApiReasons, ExecuteDates)
    \/ ShouldRebalance(VolatilityCurrents, VolatilityTargets, VolatilityDates,
                       VolatilityVols, VolatilityPerfs)

SpecVolatility == Init(VolatilityConfigs, Orders(Symbols)) /\ [][NextVolatility]_vars

(***************************************************************************)
(* The optimizer: statistics and optimization over short return tables.    *)
(***************************************************************************)
Frame(cols, rows) == [columns |-> cols, rows |-> rows]

NoColumns == Frame(<< >>, << >>)
OnePeriod == Frame(<<"A", "B">>, <<W2(Q(1, 100), Q(1, 50))>>)
OneAsset == Frame(<<"A">>, <<W1(Zero), W1(Q(1, 5)), W1(Q(2, 5))>>)
TwoAssets == Frame(<<"A", "B">>, <<W2(Zero, Q(1, 50)), W2(Q(1, 50), Zero), W2(Q(1, 25), Q(1, 50))>>)
WithGap == Frame(<<"A", "B">>, <<W2(Q(1, 100), NaN), W2(Q(3, 100), Q(1, 100)), W2(Q(1, 50), Q(3, 100))>>)

OptimizerRates == {DefaultRiskFreeRate}
OptimizerTables == {NoColumns, OnePeriod, OneAsset, TwoAssets}
MetricsTables == {OnePeriod, OneAsset, TwoAssets, WithGap}
MetricsVectors == {<< >>, <<One>>, <<Q(1, 2), Q(1, 2)>>, <<Q(1, 4), Q(3, 4)>>}
OptimizerTargets == Objectives \cup {"max_sharpe"}
OptimizerMins == {Zero, Q(1, 4), One}
OptimizerMaxs == {Q(3, 4), One}

NextOptimizer ==
    \/ CalculatePortfolioMetrics(MetricsVectors, MetricsTables)
    \/ OptimizePortfolio(OptimizerTables, OptimizerTargets, OptimizerMins, OptimizerMaxs)

SpecOptimizer == InitOptimizer(OptimizerRates) /\ [][NextOptimizer]_vars

(***************************************************************************)
(* The optimizer: value at risk and Monte Carlo simulation.                *)
(***************************************************************************)
\* Bounds: the largest num_simulations and time_horizon of a simulation.
MaxSimulations == 3
MaxHorizon == 2

ConstantReturn == Frame(<<"A", "B">>, <<W2(Q(1, 100), Q(1, 100)), W2(Q(1, 100), Q(1, 100))>>)
NoReturn == Frame(<<"A", "B">>, <<W2(Zero, Zero), W2(Zero, Zero), W2(Zero, Zero)>>)
Offsetting == Frame(<<"A", "B">>, <<W2(Q(1, 50), Q(-1, 50)), W2(Q(-1, 50), Q(1, 50))>>)

RiskTables == {OnePeriod, OneAsset, TwoAssets, ConstantReturn, NoReturn, Offsetting}
RiskVectors == {<<One>>, <<Q(1, 2), Q(1, 2)>>, <<One, Zero>>}
RiskLevels == {Q(1, 100), Q(1, 20), Q(1, 2)}
RiskHorizons == {1, 4}

SimulationTables == {OnePeriod, OneAsset, ConstantReturn}
SimulationVectors == {<<One>>, <<Q(1, 2), Q(1, 2)>>}
SimulationInvestments == {Int2Q(100)}
SimulationHorizons == 0..MaxHorizon
SimulationRuns == 0..MaxSimulations
SimulationVariates == {Int2Q(-1), One}

NextRisk ==
    \/ CalculateVar(RiskTables, RiskVectors, RiskLevels, RiskHorizons)
    \/ MonteCarloSimulation(SimulationTables, SimulationVectors, SimulationInvestments,
                            SimulationHorizons, SimulationRuns, SimulationVariates)

SpecRisk == InitOptimizer(OptimizerRates) /\ [][NextRisk]_vars

(***************************************************************************)
(* Backtests whose dates are closer together than the rebalance frequency. *)
(***************************************************************************)
\* Bound: the number of rows of these price tables.
ScheduleRows == 8

\* Constant prices, the dates one tick and three ticks apart.
ScheduleSeries ==
    Table({"A", "B"}, ScheduleRows, 1, {P2(2, 2)}, {P2(2, 2)})
    \cup Table({"A", "B"}, ScheduleRows, 3, {P2(2, 2)}, {P2(2, 2)})

ScheduleConfigs ==
    {RebalanceConfig("Weekly", Int2Q(5), FALSE, Q(1, 10), Int2Q(100), 20,
                     Q(2, 100), Q(5, 100)),
     RebalanceConfig("Daily", Int2Q(5), FALSE, Q(1, 10), Int2Q(100), 20,
                     Q(2, 100), Q(5, 100))}

ScheduleTargets == {W2(Q(1, 2), Q(1, 2)), W1(One)}

NextSchedule ==
    \/ BacktestStart(ScheduleSeries, ScheduleTargets, ApiValues, AnyDate, AnyDate)
    \/ BacktestStep
    \/ BacktestFinish

SpecSchedule == Init(ScheduleConfigs, Orders(Symbols)) /\ [][NextSchedule]_vars

(***************************************************************************)
(* Backtests under configurations that differ in the trading cost, the     *)
(* minimum trade amount and the number of trades per period only.          *)
(***************************************************************************)
CostConfig(tc, mta, mtp) ==
    RebalanceConfig("Monthly", Int2Q(5), FALSE, tc, mta, mtp, Q(2, 100), Q(5, 100))

CostConfigs ==
    {DefaultConfig,
     CostConfig(One, Int2Q(100), 1),
     CostConfig(Q(1, 10), Int2Q(100000), 20),
     CostConfig(Zero, Zero, 0)}

CostSeries ==
    {ScenarioData} \cup Table({"A", "B"}, NRows, Day(1), {P2(2, 2)}, {P2(2, 1)})

CostTargets == {W2(Q(1, 2), Q(1, 2)), W2(Q(1, 2), Q(1, 4))}

NextCosts ==
    \/ BacktestStart(CostSeries, CostTargets, ApiValues, AnyDate, AnyDate)
    \/ BacktestStep
    \/ BacktestFinish

SpecCosts == Init(CostConfigs, Orders(Symbols)) /\ [][NextCosts]_vars

\* The owner of the dicts passed to execute_rebalance stores a weight in one
\* of them after the call returned (the parameters of lines 242-243 are plain
\* mutable dicts).
CallerUpdates(symbols, weights) ==
    /\ bt.pc = "idle"
    /\ rebalance_history # << >>
    /\ \E which \in DOMAIN caller, s \in symbols, w \in weights :
         /\ caller' = [caller EXCEPT ![which] = Extend(@, s, w)]
         /\ call' = [op |-> "__setitem__", dict |-> which, symbol |-> s, weight |-> w]
    /\ UNCHANGED <<fixed, rebalance_history, last_rebalance_date, bt>>

(***************************************************************************)
(* Events against later changes of the dicts they were built from: direct  *)
(* calls that skip or cut trades, a short backtest, and a caller that      *)
(* writes to its dicts afterwards.                                         *)
(***************************************************************************)
SnapshotConfigs ==
    {DefaultConfig,
     RebalanceConfig("Monthly", Int2Q(5), FALSE, Q(1, 10), Int2Q(100), 1, Q(2, 100), Q(5, 100)),
     RebalanceConfig("Monthly", Int2Q(5), FALSE, Q(1, 10), Int2Q(1000), 20, Q(2, 100), Q(5, 100))}

SnapshotOrders == {<<"A", "B", "C">>, <<"C", "B", "A">>}
SnapshotSymbols == {"A"}
SnapshotWeights == {Zero, One}

NextSnapshot ==
    \/ ExecuteRebalance(ExecutedCurrents, ExecutedTargets, ExecutedValues, ApiNames,
                        ApiTriggers, ApiReasons, ExecutedDates)
    \/ CallerUpdates(SnapshotSymbols, SnapshotWeights)
    \/ BacktestStart(ApiSeries, ApiTargets, ApiValues, AnyDate, AnyDate)
    \/ BacktestStep
    \/ BacktestFinish

SpecSnapshot == Init(SnapshotConfigs, SnapshotOrders) /\ [][NextSnapshot]_vars

(***************************************************************************)
(* Properties.                                                             *)
(***************************************************************************)
\* A step that ran execute_rebalance: the direct call, or the branch of
\* line 346 of a backtest pass.
DirectExecute == bt.pc = "idle" /\ bt'.pc = "idle" /\ call'.op = "execute_rebalance"
BacktestExecute == bt.pc = "loop" /\ bt'.pc = "loop" /\ bt'.i = bt.i + 1 /\ bt'.rebalanced

LastEvent == rebalance_history[Len(rebalance_history)]

\* C1: every call of execute_rebalance appends exactly one event to the
\* history, the event it returns, carrying the call's date, trigger,
\* portfolio name and reason, and sets last_rebalance_date to the call's date,
\* whatever the weights, the trigger and the config.
C1_ExecuteAppendsOneEvent ==
    [][/\ DirectExecute =>
            /\ rebalance_history' = Append(rebalance_history, call'.ret)
            /\ call'.ret.date = call'.current_date
            /\ call'.ret.trigger = call'.trigger
            /\ call'.ret.portfolio_name = call'.portfolio_name
            /\ call'.ret.reason = call'.reason
            /\ last_rebalance_date' = call'.current_date
       /\ BacktestExecute =>
            /\ Len(rebalance_history') = Len(rebalance_history) + 1
            /\ SubSeq(rebalance_history', 1, Len(rebalance_history)) = rebalance_history
            /\ LastEvent'.date = bt.data.index[bt'.i]
            /\ LastEvent'.portfolio_name = "Backtest Portfolio"
            /\ LastEvent'.trigger \in RebalanceTrigger
            /\ last_rebalance_date' = bt.data.index[bt'.i]]_vars

\* Witness of C1: a second direct call, on a rebalancer whose auto_rebalance is
\* off, has returned the event that now ends a history of two.
C1_Witness ==
    /\ call.op = "execute_rebalance"
    /\ ~config.auto_rebalance
    /\ Len(rebalance_history) = 2
    /\ LastEvent = call.ret
    /\ call.current_weights # call.target_weights
    /\ last_rebalance_date = call.current_date

\* C2: the history is append-only: at every step the events already in it keep
\* their content and their place, and its length never decreases.
C2_HistoryAppendOnly ==
    [][/\ Len(rebalance_history') >= Len(rebalance_history)
       /\ SubSeq(rebalance_history', 1, Len(rebalance_history)) = rebalance_history]_vars

\* Witness of C2: a history of three events written by a direct call and by a
\* backtest, read afterwards by an export.
C2_Witness ==
    /\ call.op = "export_rebalance_history"
    /\ Len(rebalance_history) = 3
    /\ rebalance_history[1].portfolio_name = "Main"
    /\ rebalance_history[3].portfolio_name = "Backtest Portfolio"

\* What a second call of the recorded analyze_drift or should_rebalance, with
\* the same arguments, returns in the state the first call left.
SameAgain ==
    /\ call.op = "analyze_drift" =>
          call.ret = analyze_drift(config, call.current_weights, call.target_weights,
                         call.portfolio_value,
                         SetOrder(UnionKeys(call.current_weights, call.target_weights)))
    /\ call.op = "should_rebalance" =>
          call.ret = should_rebalance(config, last_rebalance_date, call.current_weights,
                         call.target_weights, call.current_date, call.market_volatility,
                         call.portfolio_performance,
                         SetOrder(UnionKeys(call.current_weights, call.target_weights)))

\* C3: only execute_rebalance writes the rebalancer's state: every other step
\* (analyze_drift, should_rebalance, get_rebalance_calendar,
\* export_rebalance_history, the passes of a backtest that do not rebalance)
\* leaves history, last_rebalance_date and config as they were, so a repeated
\* analyze_drift or should_rebalance returns what the first call returned.
C3_OnlyExecuteWrites ==
    /\ [][/\ config' = config
          /\ (DirectExecute \/ BacktestExecute)
               \/ UNCHANGED <<rebalance_history, last_rebalance_date>>]_vars
    /\ []SameAgain

\* Witness of C3: should_rebalance has answered, not due, on a rebalancer that
\* holds two events.
C3_Witness ==
    /\ call.op = "should_rebalance"
    /\ Len(rebalance_history) = 2
    /\ call.ret.raised = ""
    /\ ~call.ret.should

\* The four conditions of the trigger evaluator as its contract states them,
\* for the recorded call of should_rebalance.
CondScheduled ==
    \/ last_rebalance_date = NoDate
    \/ (call.current_date - last_rebalance_date) \div TicksPerDay
          >= (CASE config.frequency = "Daily" -> 1
                [] config.frequency = "Weekly" -> 7
                [] config.frequency = "Monthly" -> 30
                [] config.frequency = "Quarterly" -> 90
                [] config.frequency = "Semi-Annual" -> 180
                [] config.frequency = "Annual" -> 365)

CondThreshold ==
    \E s \in UnionKeys(call.current_weights, call.target_weights) :
       /\ QGt(Get(call.target_weights, s), Zero)
       /\ QGt(QMul(QDiv(QAbs(QSub(Get(call.current_weights, s),
                                  Get(call.target_weights, s))),
                        Get(call.target_weights, s)), Hundred),
              config.threshold_percent)

CondVolatility ==
    /\ ~IsNone(call.market_volatility)
    /\ QGt(call.market_volatility, config.volatility_threshold)

CondPerformance ==
    /\ ~IsNone(call.portfolio_performance)
    /\ QGt(QAbs(call.portfolio_performance), config.performance_threshold)

HowMany(b) == IF b THEN 1 ELSE 0

FirstMatch ==
    IF CondScheduled THEN "Scheduled"
    ELSE IF CondThreshold THEN "Threshold"
    ELSE IF CondVolatility THEN "Volatility"
    ELSE IF CondPerformance THEN "Performance"
    ELSE NoTrigger

Returned(should, trigger) ==
    /\ call.ret.raised = ""
    /\ call.ret.should = should
    /\ call.ret.trigger = trigger

\* C4: should_rebalance reports the first match of the chain Scheduled >
\* Threshold > Volatility > Performance: when several conditions hold at once
\* it returns True with the highest-priority one among them.
C4_PriorityChain ==
    (/\ call.op = "should_rebalance"
     /\ HowMany(CondScheduled) + HowMany(CondThreshold) + HowMany(CondVolatility)
           + HowMany(CondPerformance) >= 2)
    => Returned(TRUE, FirstMatch)

\* C5: should_rebalance reports Scheduled iff last_rebalance_date is unset or
\* the whole days since it are at least the frequency's day count; with
\* frequency Monthly, last_rebalance_date = D and no other condition holding
\* it returns False at D + 29 days and (True, Scheduled) at D + 30 days.
C5_ScheduledByDayCount ==
    call.op = "should_rebalance" =>
       /\ call.ret.trigger = "Scheduled" <=> CondScheduled
       /\ (/\ config.frequency = "Monthly"
           /\ last_rebalance_date # NoDate
           /\ ~CondThreshold /\ ~CondVolatility /\ ~CondPerformance)
          => /\ call.current_date = last_rebalance_date + Day(29)
                  => Returned(FALSE, NoTrigger)
             /\ call.current_date = last_rebalance_date + Day(30)
                  => Returned(TRUE, "Scheduled")

\* C6: should_rebalance returns (False, None, "No rebalancing needed") exactly
\* when none of the four conditions holds, and True with a trigger kind
\* whenever one of them holds.
C6_FalseIffNoCondition ==
    call.op = "should_rebalance" =>
       IF FirstMatch = NoTrigger
       THEN /\ Returned(FALSE, NoTrigger)
            /\ call.ret.reason.text = "No rebalancing needed"
       ELSE /\ call.ret.raised = ""
            /\ call.ret.should
            /\ call.ret.trigger \in RebalanceTrigger

\* A step that is one whole pass of the backtest loop, and the row it read.
BacktestPass == bt.pc = "loop" /\ bt'.pc = "loop" /\ bt'.i = bt.i + 1
RowOf(f) == f.data.rows[f.i]

Min(a, b) == IF a < b THEN a ELSE b

\* C7: a backtest run never executes more than 100 rebalances: the dates it
\* has rebalanced on number the dates on which should_rebalance said True, up
\* to 100 and never more; so a run over more than 100 dates that triggers on
\* every one of them (threshold_percent 0 and drift on every date) executes
\* exactly 100 rebalances, and the report counts at most 100.
C7_NeverMoreThanHundred ==
    /\ bt.pc = "loop" =>
          /\ Len(bt.rebalance_dates) <= 100
          /\ Len(bt.rebalance_dates) = Min(bt.triggered, 100)
          /\ (bt.triggered = bt.i /\ bt.i > 100) => Len(bt.rebalance_dates) = 100
    /\ (call.op = "backtest_rebalancing" /\ call.ret.raised = "") =>
          /\ call.ret.num_rebalances <= 100
          /\ call.ret.num_rebalances = Len(call.ret.rebalance_dates)

\* Witness of C7: with threshold_percent 0 every one of more than 100 dates
\* has triggered, 100 rebalances are done and the pass just made, triggered
\* too, has executed none.
C7_Witness ==
    /\ bt.pc = "loop"
    /\ config.threshold_percent = Zero
    /\ bt.i > 100
    /\ bt.triggered = bt.i
    /\ bt.should_rebal
    /\ ~bt.rebalanced
    /\ Len(bt.rebalance_dates) = 100

\* The assets a pass values: those held whose price of the date is a number.
Held(f, prices) == {s \in DOMAIN f.current_shares : Priced(prices, s)}

RECURSIVE SumOver(_, _)
SumOver(f, S) ==
    IF S = {} THEN Zero
    ELSE LET s == CHOOSE x \in S : TRUE IN QAdd(f[s], SumOver(f, S \ {s}))

\* C8: on every date of a backtest the current weights are value_i / total,
\* the total being the whole portfolio value of the date: they are defined for
\* the held assets, each times the total is the asset's shares x price, they
\* sum to 1, and an asset at its target share of the total has its target
\* weight (zero drift).
C8_WeightsAreSharesOfTotal ==
    [][BacktestPass =>
         LET prices == RowOf(bt')
             held == Held(bt, prices)
             total == bt'.current_value
         IN  /\ DOMAIN bt'.current_weights = held
             /\ \A s \in held :
                   /\ QMul(bt'.current_weights[s], total)
                         = QMul(bt.current_shares[s], prices[s])
                   /\ QMul(bt.current_shares[s], prices[s])
                         = QMul(total, bt.target_weights[s])
                      => bt'.current_weights[s] = bt.target_weights[s]
             /\ held # {} => SumOver(bt'.current_weights, held) = One]_vars

\* C9 as stated: a pass whose date triggers a rebalance, fewer than 100 being
\* done, resets the shares of every asset of target_weights to
\* (current_value * target_weight) / current_price; any other pass leaves the
\* shares unchanged.
C9_EveryTargetAssetReset ==
    [][BacktestPass =>
         LET prices == RowOf(bt')
         IN  IF bt'.should_rebal /\ Len(bt.rebalance_dates) < 100
             THEN \A s \in DOMAIN bt.target_weights :
                     /\ Priced(prices, s)
                     /\ s \in DOMAIN bt'.current_shares
                     /\ QMul(bt'.current_shares[s], prices[s])
                           = QMul(bt'.current_value, bt.target_weights[s])
             ELSE bt'.current_shares = bt.current_shares]_vars

\* C9 (amended): a pass whose date triggers a rebalance, fewer than 100 being
\* done, resets the shares of every asset of target_weights whose price of
\* the date is a number to (current_value * target_weight) / current_price,
\* and leaves every other asset's shares as they were; any other pass leaves
\* all the shares unchanged.
C9_PricedTargetAssetsReset ==
    [][BacktestPass =>
         LET prices == RowOf(bt')
         IN  IF bt'.should_rebal /\ Len(bt.rebalance_dates) < 100
             THEN /\ \A s \in DOMAIN bt.target_weights :
                        IF Priced(prices, s)
                        THEN /\ s \in DOMAIN bt'.current_shares
                             /\ QMul(bt'.current_shares[s], prices[s])
                                   = QMul(bt'.current_value, bt.target_weights[s])
                        ELSE /\ s \in DOMAIN bt'.current_shares
                                   <=> s \in DOMAIN bt.current_shares
                             /\ s \in DOMAIN bt.current_shares
                                   => bt'.current_shares[s] = bt.current_shares[s]
                  /\ DOMAIN bt'.current_shares \subseteq DOMAIN bt.target_weights
             ELSE bt'.current_shares = bt.current_shares]_vars

\* Witness of C9: a pass has rebalanced on a date on which one held target
\* asset has no price and another has one; the latter holds the shares that
\* its target weight of the date's value buys, which are not those it
\* started with.
C9_Witness ==
    /\ bt.pc = "loop"
    /\ bt.rebalanced
    /\ \E s, u \in DOMAIN bt.target_weights :
          /\ u \in DOMAIN bt.current_shares
          /\ ~Priced(RowOf(bt), u)
          /\ Priced(RowOf(bt), s)
          /\ QMul(bt.current_shares[s], RowOf(bt)[s])
                = QMul(bt.current_value, bt.target_weights[s])
          /\ QMul(bt.current_shares[s], bt.data.rows[1][s])
                # QMul(bt.initial_value, bt.target_weights[s])

IsScenario ==
    /\ bt.data = ScenarioData
    /\ bt.target_weights = W2(Q(1, 2), Q(1, 2))
    /\ bt.initial_value = Int2Q(10000)

\* C10 as stated: every asset of target_weights starts with
\* (initial_value * target_weight) / price_at_start shares, so the value of
\* the first date is initial_value when the target weights sum to 1; in the
\* scenario that is 50 shares of A and 100 of B.
C10_EveryAssetBought ==
    bt.pc = "loop" =>
       /\ bt.i = 0 =>
             \A s \in DOMAIN bt.target_weights :
                /\ s \in DOMAIN bt.current_shares
                /\ QMul(bt.current_shares[s], bt.data.rows[1][s])
                      = QMul(bt.initial_value, bt.target_weights[s])
       /\ (bt.i >= 1 /\ SumOver(bt.target_weights, DOMAIN bt.target_weights) = One)
             => bt.portfolio_values[1] = bt.initial_value
       /\ (bt.i = 0 /\ IsScenario) => bt.current_shares = P2(50, 100)

\* C10 (amended): every asset of target_weights that has a column in the
\* price table (its first price being a number other than 0) starts with
\* (initial_value * target_weight) / price_at_start shares and the others
\* with none, so the value of the first date is initial_value when the target
\* weights sum to 1 and every target asset has a column; in the scenario
\* that is 50 shares of A and 100 of B.
C10_AssetsWithColumnBought ==
    bt.pc = "loop" =>
       /\ bt.i = 0 =>
             /\ DOMAIN bt.current_shares = DOMAIN bt.target_weights \cap bt.data.columns
             /\ \A s \in DOMAIN bt.current_shares :
                   QMul(bt.current_shares[s], bt.data.rows[1][s])
                      = QMul(bt.initial_value, bt.target_weights[s])
       /\ (/\ bt.i >= 1
           /\ SumOver(bt.target_weights, DOMAIN bt.target_weights) = One
           /\ DOMAIN bt.target_weights \subseteq bt.data.columns)
             => bt.portfolio_values[1] = bt.initial_value
       /\ (bt.i = 0 /\ IsScenario) => bt.current_shares = P2(50, 100)

\* Witness of C10: the scenario's backtest has read its first row, holding 50
\* shares of A and 100 of B at first, and valued it at 10000.
C10_Witness ==
    /\ bt.pc = "loop"
    /\ bt.i = 1
    /\ IsScenario
    /\ bt.portfolio_values = <<Int2Q(10000)>>
    /\ InitialShares(bt.data, bt.target_weights, bt.tw_order, bt.initial_value,
                     NoShares).map = P2(50, 100)

\* A step in which a backtest returns its report.
BacktestReturn ==
    /\ bt.pc = "loop"
    /\ bt'.pc = "idle"
    /\ call'.op = "backtest_rebalancing"
    /\ call'.ret.raised = ""

\* The assets the baseline holds: the target assets with a price column.
Baseline(f) == DOMAIN f.target_weights \cap f.data.columns

\* sum over S of qty[s] * prices[s] / first[s].
RECURSIVE Revalued(_, _, _, _)
Revalued(S, qty, prices, first) ==
    IF S = {} THEN Zero
    ELSE LET s == CHOOSE x \in S : TRUE
         IN  QAdd(QDiv(QMul(qty[s], prices[s]), first[s]),
                  Revalued(S \ {s}, qty, prices, first))

\* C11: the buy-and-hold baseline holds the initial shares of the policy
\* portfolio, (initial_value * target_weight) / price_at_start, and is never
\* rebalanced: its value on every date is the sum of those shares x the date's
\* price over the assets priced on the date, whatever the policy rebalanced;
\* buy_hold_return is its last value / initial_value - 1; in the scenario
\* the values are 10000, 10300, 10450 and the return 4.5%.
C11_BuyHoldNeverRebalanced ==
    [][BacktestReturn =>
         LET ret == call'.ret
             amounts == [s \in Baseline(bt) |-> QMul(bt.initial_value, bt.target_weights[s])]
         IN  /\ Len(ret.buy_hold_values) = Len(bt.data.rows)
             /\ \A i \in DOMAIN bt.data.rows :
                   ret.buy_hold_values[i]
                      = Revalued({s \in Baseline(bt) : Priced(bt.data.rows[i], s)},
                                 amounts, bt.data.rows[i], bt.data.rows[1])
             /\ QMul(QAdd(ret.buy_hold_return, One), bt.initial_value)
                   = ret.buy_hold_values[Len(bt.data.rows)]
             /\ IsScenario =>
                   /\ ret.buy_hold_values = <<Int2Q(10000), Int2Q(10300), Int2Q(10450)>>
                   /\ ret.buy_hold_return = Q(45, 1000)]_vars

\* Witness of C11: the scenario's backtest has returned after three
\* rebalances, its baseline valued 10000, 10300, 10450 and not as the policy
\* portfolio.
C11_Witness ==
    /\ call.op = "backtest_rebalancing"
    /\ call.ret.raised = ""
    /\ call.ret.num_rebalances = 3
    /\ call.ret.buy_hold_values = <<Int2Q(10000), Int2Q(10300), Int2Q(10450)>>
    /\ call.ret.buy_hold_return = Q(45, 1000)
    /\ call.ret.portfolio_values # call.ret.buy_hold_values

\* The value of the scenario's third date after a rebalance on the second:
\* 5150/110 shares of A at 105 and 5150/48 shares of B at 52.
RebalancedDay3 == QAdd(QMul(Q(5150, 110), Int2Q(105)), QMul(Q(5150, 48), Int2Q(52)))

\* C12 as stated: in the scenario the value recorded on day 2 is 10300 and
\* the value recorded on day 3 is 10450.
C12_ScenarioValues ==
    (bt.pc = "loop" /\ IsScenario) =>
       /\ bt.i >= 2 => bt.portfolio_values[2] = Int2Q(10300)
       /\ bt.i >= 3 => bt.portfolio_values[3] = Int2Q(10450)

\* C12 (amended): in the scenario the value recorded on day 2 is 10300; the
\* value recorded on day 3 is 10450 if the run did not rebalance on day 2 and
\* 5150/110 * 105 + 5150/48 * 52 (about 10495.08) if it did, and with the
\* default config (threshold_percent 5) it does rebalance on day 2.
C12_ScenarioValuesByRebalance ==
    (bt.pc = "loop" /\ IsScenario) =>
       /\ bt.i >= 2 => bt.portfolio_values[2] = Int2Q(10300)
       /\ bt.i >= 3 =>
             bt.portfolio_values[3]
                = IF InSeq(Day(1), bt.rebalance_dates) THEN RebalancedDay3
                  ELSE Int2Q(10450)
       /\ (bt.i >= 2 /\ config = DefaultConfig) => InSeq(Day(1), bt.rebalance_dates)

\* Witness of C12: the scenario's backtest under the default config has
\* recorded its three values, the third after the rebalance of day 2.
C12_Witness ==
    /\ bt.pc = "loop"
    /\ IsScenario
    /\ config = DefaultConfig
    /\ bt.i = 3
    /\ InSeq(Day(1), bt.rebalance_dates)
    /\ bt.portfolio_values = <<Int2Q(10000), Int2Q(10300), RebalancedDay3>>

\* The last n elements of a sequence.
LastN(seq, n) == SubSeq(seq, Len(seq) - n + 1, Len(seq))

RECURSIVE SumOfCosts(_)
SumOfCosts(events) ==
    IF events = << >> THEN Zero ELSE QAdd(Head(events).cost, SumOfCosts(Tail(events)))

\* C20: a backtest's report counts the events its run appended to the
\* history: the run starts with no rebalance date and no cost, every pass
\* appends as many events to the history as dates to rebalance_dates and adds
\* the appended event's cost to total_costs, and the report gives
\* num_rebalances = len(rebalance_dates) = the number of those events,
\* total_costs = the sum of their cost fields, cost_drag = total_costs /
\* initial_value.
C20_ReportCountsItsEvents ==
    [][/\ (bt.pc = "idle" /\ bt'.pc = "loop") =>
             /\ bt'.rebalance_dates = << >>
             /\ bt'.total_costs = Zero
             /\ rebalance_history' = rebalance_history
       /\ BacktestPass =>
             /\ Len(rebalance_history') - Len(rebalance_history)
                   = Len(bt'.rebalance_dates) - Len(bt.rebalance_dates)
             /\ bt'.total_costs
                   = QAdd(bt.total_costs,
                          SumOfCosts(LastN(rebalance_history',
                                           Len(rebalance_history') - Len(rebalance_history))))
       /\ BacktestReturn =>
             LET ret == call'.ret
                 mine == LastN(rebalance_history, ret.num_rebalances)
             IN  /\ rebalance_history' = rebalance_history
                 /\ ret.num_rebalances = Len(bt.rebalance_dates)
                 /\ ret.rebalance_dates = bt.rebalance_dates
                 /\ ret.num_rebalances <= Len(rebalance_history)
                 /\ [k \in DOMAIN mine |-> mine[k].date] = ret.rebalance_dates
                 /\ \A k \in DOMAIN mine : mine[k].portfolio_name = "Backtest Portfolio"
                 /\ ret.total_costs = SumOfCosts(mine)
                 /\ ret.cost_drag = QDiv(ret.total_costs, bt.initial_value)]_vars

\* Witness of C20: a second backtest of the same rebalancer has reported two
\* rebalances of different cost, the history holding more events than that.
C20_Witness ==
    /\ call.op = "backtest_rebalancing"
    /\ call.ret.raised = ""
    /\ call.ret.num_rebalances = 2
    /\ Len(rebalance_history) > 2
    /\ LastEvent.cost # rebalance_history[Len(rebalance_history) - 1].cost
    /\ QGt(LastEvent.cost, Zero)
    /\ call.ret.total_costs
          = QAdd(LastEvent.cost, rebalance_history[Len(rebalance_history) - 1].cost)

\* The trade lists and their costs that the state shows: the result of the
\* recorded call of the trade generator or of analyze_drift, and the events
\* of the history.
Generated ==
    (IF call.op = "_generate_rebalance_trades"
     THEN {[trades |-> call.ret.trades, cost |-> call.ret.total_cost]} ELSE {})
    \cup (IF call.op = "analyze_drift" /\ call.ret.raised = ""
          THEN {[trades |-> call.ret.suggested_trades, cost |-> call.ret.estimated_cost]}
          ELSE {})
    \cup {[trades |-> rebalance_history[i].trades, cost |-> rebalance_history[i].cost] :
             i \in DOMAIN rebalance_history}

\* |target - current| * portfolio_value of the recorded call, for a symbol.
Amount(s) ==
    QAbs(QMul(QSub(Get(call.target_weights, s), Get(call.current_weights, s)),
              call.portfolio_value))

\* The symbols of the recorded call whose trade is not below the minimum.
Eligible ==
    {s \in UnionKeys(call.current_weights, call.target_weights) :
        ~QLt(Amount(s), config.min_trade_amount)}

Retained == {call.ret.trades[i].symbol : i \in DOMAIN call.ret.trades}

\* C13: no trade that the trade generator returns, in its own result, in
\* analyze_drift's suggested_trades or in an event of the history, has
\* trade_amount < min_trade_amount; the generator's trades are trades of
\* eligible symbols with the amount |target - current| * portfolio_value.
C13_NoTradeBelowMinimum ==
    /\ \A g \in Generated : \A i \in DOMAIN g.trades :
          ~QLt(g.trades[i].trade_amount, config.min_trade_amount)
    /\ call.op = "_generate_rebalance_trades" =>
          /\ Retained \subseteq Eligible
          /\ \A i \in DOMAIN call.ret.trades :
                call.ret.trades[i].trade_amount = Amount(call.ret.trades[i].symbol)

\* Witness of C13: the generator, with min_trade_amount 100, has left out a
\* symbol off its target by 50 and returned trades for the others.
C13_Witness ==
    /\ call.op = "_generate_rebalance_trades"
    /\ config.min_trade_amount = Int2Q(100)
    /\ \E s \in UnionKeys(call.current_weights, call.target_weights) :
          /\ Amount(s) = Int2Q(50)
          /\ s \notin Retained
    /\ Len(call.ret.trades) = 2

\* C14: with max_trades_per_period >= 0 the trade generator returns at most
\* max_trades_per_period trades, none when it is 0, and so does every
\* suggested_trades list and every event of the history.
C14_AtMostMaxTrades ==
    config.max_trades_per_period >= 0 =>
       \A g \in Generated :
          /\ Len(g.trades) <= config.max_trades_per_period
          /\ config.max_trades_per_period = 0 => g.trades = << >>

\* Witness of C14: three symbols are eligible and the generator, with
\* max_trades_per_period 2, has returned two trades.
C14_Witness ==
    /\ call.op = "_generate_rebalance_trades"
    /\ config.max_trades_per_period = 2
    /\ Cardinality(Eligible) = 3
    /\ Len(call.ret.trades) = 2

RECURSIVE CostOfTrades(_, _)
CostOfTrades(trades, percent) ==
    IF trades = << >> THEN Zero
    ELSE QAdd(QDiv(QMul(Head(trades).trade_amount, percent), Hundred),
              CostOfTrades(Tail(trades), percent))

\* C15: the cost the trade generator returns is the sum of
\* trade_amount * trading_cost_percent / 100 over the trades it returns,
\* whether it cut trades off or not; trades skipped or cut off add nothing.
C15_CostOfReturnedTrades ==
    \A g \in Generated : g.cost = CostOfTrades(g.trades, config.trading_cost_percent)

\* Witness of C15: of three eligible trades, each worth more than 0, the
\* generator has cut one off and returned the cost of the two it kept, which
\* is above 0 and below the cost of the three.
C15_Witness ==
    /\ call.op = "_generate_rebalance_trades"
    /\ Cardinality(Eligible) = 3
    /\ Len(call.ret.trades) = 2
    /\ \A s \in Eligible : QGt(Amount(s), Zero)
    /\ QGt(call.ret.total_cost, Zero)
    /\ QLt(call.ret.total_cost,
           QDiv(QMul(QAdd(Amount("A"), QAdd(Amount("B"), Amount("C"))),
                     config.trading_cost_percent), Hundred))

\* C16: the returned trades are in order of non-increasing trade_amount, and
\* every trade kept is at least as large as every eligible trade cut off.
C16_LargestTradesFirst ==
    /\ \A g \in Generated : \A i, j \in DOMAIN g.trades :
          i < j => ~QLt(g.trades[i].trade_amount, g.trades[j].trade_amount)
    /\ call.op = "_generate_rebalance_trades" =>
          \A kept \in Retained : \A cut \in Eligible \ Retained :
             ~QLt(Amount(kept), Amount(cut))

\* Witness of C16: three eligible trades of amounts 2000, 1500 and 500, met
\* by the loop smallest first, of which the generator has kept 2000 and 1500
\* in that order.
C16_Witness ==
    /\ call.op = "_generate_rebalance_trades"
    /\ Cardinality(Eligible) = 3
    /\ SetOrder(Eligible)[1] = "B"
    /\ Amount("B") = Int2Q(500)
    /\ Len(call.ret.trades) = 2
    /\ call.ret.trades[1].trade_amount = Int2Q(2000)
    /\ call.ret.trades[2].trade_amount = Int2Q(1500)

\* C17: analyze_drift(w, w, value) returns normally, for every weight map w,
\* the empty one included, with total_drift 0, rebalance_needed False, no
\* suggested trade and an estimated cost of 0.
C17_NoDriftIsNeutral ==
    (call.op = "analyze_drift" /\ call.current_weights = call.target_weights) =>
       /\ call.ret.raised = ""
       /\ call.ret.total_drift = Zero
       /\ ~call.ret.rebalance_needed
       /\ call.ret.suggested_trades = << >>
       /\ call.ret.estimated_cost = Zero

\* drift_percent of a symbol in the recorded call, as the contract defines it.
DriftPercent(s) ==
    LET current == IF s \in DOMAIN call.current_weights THEN call.current_weights[s] ELSE Zero
        target == IF s \in DOMAIN call.target_weights THEN call.target_weights[s] ELSE Zero
    IN  IF target = Zero THEN Zero
        ELSE QDiv(QMul(QAbs(QSub(current, target)), Hundred), target)

\* C18: analyze_drift reports rebalance_needed = true iff some symbol of the
\* union of both maps has drift_percent > threshold_percent, drift being
\* |current - target| with 0 for a missing symbol and drift_percent being
\* drift / target * 100, 0 when the target is 0: a symbol absent from the
\* target does not trigger, nor does a drift equal to the threshold.
C18_NeededIffMaxDriftAbove ==
    call.op = "analyze_drift" =>
       /\ (call.ret.raised = "" /\ call.ret.rebalance_needed)
             <=> \E s \in UnionKeys(call.current_weights, call.target_weights) :
                    QGt(DriftPercent(s), config.threshold_percent)
       /\ call.ret.raised = "" =>
             \A s \in UnionKeys(call.current_weights, call.target_weights) :
                /\ call.ret.stock_drifts[s].drift_percent = DriftPercent(s)
                /\ call.ret.stock_drifts[s].drift
                      = QAbs(QSub(Get(call.current_weights, s), Get(call.target_weights, s)))

\* Witness of C18: analyze_drift has answered False for maps in which the
\* largest drift_percent equals the threshold of 5.
C18_Witness ==
    /\ call.op = "analyze_drift"
    /\ call.ret.raised = ""
    /\ ~call.ret.rebalance_needed
    /\ config.threshold_percent = Int2Q(5)
    /\ \E s \in DOMAIN call.target_weights : DriftPercent(s) = Int2Q(5)

\* C19: when neither the Scheduled nor the Threshold condition holds,
\* should_rebalance returns (True, Volatility) iff market_volatility is
\* supplied (is not None; it may be 0) and is greater than
\* volatility_threshold.
C19_VolatilityIffSupplied ==
    (call.op = "should_rebalance" /\ ~CondScheduled /\ ~CondThreshold) =>
       (Returned(TRUE, "Volatility") <=> CondVolatility)

(***************************************************************************)
(* C21: when the solver reports non-convergence (result.success false),    *)
(* optimize_portfolio raises its explicit failure, RuntimeError            *)
(* "Optimization failed: ...", and returns no PortfolioMetrics: no weights, *)
(* equal or other, come back in place of the solver's.                     *)
(***************************************************************************)
SolverFailed ==
    /\ call.op = "optimize_portfolio"
    /\ call.result.called
    /\ call.result.raised = ""
    /\ ~call.result.success

C21_SolverFailureRaises ==
    SolverFailed =>
       /\ call.ret.raised = "RuntimeError"
       /\ DOMAIN call.ret = {"raised"}

\* The solver gave up at the initial guess, the equal weights, which would
\* have been within the bounds: the call raises all the same.
C21_Witness ==
    /\ SolverFailed
    /\ call.result.x = InitialWeights(2)
    /\ call.min_weight = Zero /\ call.max_weight = One
    /\ call.ret = [raised |-> "RuntimeError"]

(***************************************************************************)
(* C22: calculate_portfolio_metrics and optimize_portfolio fail with       *)
(* InsufficientDataError, and return no result, when the return table has  *)
(* fewer than 2 periods or fewer than 2 assets with data (the call being   *)
(* in order otherwise).                                                    *)
(***************************************************************************)
AssetsWithData(returns) ==
    {returns.columns[i] : i \in {k \in DOMAIN returns.columns :
        \E r \in DOMAIN returns.rows : returns.rows[r][returns.columns[k]] # NaN}}

InsufficientData(returns) ==
    \/ Len(returns.rows) < 2
    \/ Cardinality(AssetsWithData(returns)) < 2

\* The call's other arguments are in order: as many weights as columns, a
\* known objective, min_weight <= max_weight.
WellFormed ==
    \/ /\ call.op = "calculate_portfolio_metrics"
       /\ Len(call.weights) = Len(call.returns.columns)
    \/ /\ call.op = "optimize_portfolio"
       /\ call.optimization_target \in Objectives
       /\ QLe(call.min_weight, call.max_weight)

C22_InsufficientDataFails ==
    (WellFormed /\ InsufficientData(call.returns))
       => call.ret.raised = "InsufficientDataError"

(***************************************************************************)
(* C23: calculate_var returns exactly 0 whenever the weighted return       *)
(* series has zero variance, whatever the constant return, the confidence  *)
(* level and the horizon.                                                  *)
(***************************************************************************)
ZeroVariance(returns, weights) ==
    LET series == PortfolioReturns(returns, weights)
    IN  /\ Len(series) >= 2
        /\ \A i \in DOMAIN series : series[i] # NaN /\ series[i] = series[1]

C23_ZeroVarianceVarIsZero ==
    (/\ call.op = "calculate_var"
     /\ Len(call.weights) = Len(call.returns.columns)
     /\ ZeroVariance(call.returns, call.weights))
       => call.ret = [raised |-> "", value |-> Zero]

(***************************************************************************)
(* C24: the weights of a PortfolioMetrics returned by optimize_portfolio   *)
(* sum to 1 within 1e-6 and lie each within [min_weight, max_weight].      *)
(***************************************************************************)
ReturnedMetrics == call.op = "optimize_portfolio" /\ call.ret.raised = ""

C24_WeightsFeasible ==
    ReturnedMetrics =>
       /\ QLe(QAbs(QSub(QSum(call.ret.weights), One)), Q(1, 1000000))
       /\ \A i \in DOMAIN call.ret.weights :
             /\ QLe(call.min_weight, call.ret.weights[i])
             /\ QLe(call.ret.weights[i], call.max_weight)

\* Metrics came back under bounds tighter than [0, 1], with a weight on each
\* bound.
C24_Witness ==
    /\ ReturnedMetrics
    /\ call.optimization_target = "min_volatility"
    /\ call.min_weight = Q(1, 4) /\ call.max_weight = Q(3, 4)
    /\ call.ret.weights = <<Q(1, 4), Q(3, 4)>>
    /\ IsFinite(call.ret.volatility)

(***************************************************************************)
(* C25: for num_simulations >= 1 the percentile table returned by          *)
(* monte_carlo_simulation is non-decreasing, 5th <= 25th <= 50th <= 75th   *)
(* <= 95th, and is computed from the terminal values of the simulated      *)
(* paths, each of time_horizon + 1 values starting at initial_investment.  *)
(***************************************************************************)
Simulated ==
    /\ call.op = "monte_carlo_simulation"
    /\ call.num_simulations >= 1
    /\ call.time_horizon >= 0
    /\ Len(call.weights) = Len(call.returns.columns)

Terminal == [s \in 1..call.num_simulations |-> call.ret.simulations[s][call.time_horizon + 1]]

C25_PercentilesOrdered ==
    Simulated =>
       /\ call.ret.raised = ""
       /\ \A s \in 1..call.num_simulations :
             /\ Len(call.ret.simulations[s]) = call.time_horizon + 1
             /\ call.ret.simulations[s][1] = call.initial_investment
       /\ \A p \in {5, 25, 50, 75, 95} : call.ret.percentiles[p] = Percentile(Terminal, p)
       /\ FLe(call.ret.percentiles[5], call.ret.percentiles[25])
       /\ FLe(call.ret.percentiles[25], call.ret.percentiles[50])
       /\ FLe(call.ret.percentiles[50], call.ret.percentiles[75])
       /\ FLe(call.ret.percentiles[75], call.ret.percentiles[95])

(***************************************************************************)
(* C26: at any time last_rebalance_date is unset iff the history is empty, *)
(* and otherwise it is the date of the most recently appended event.       *)
(***************************************************************************)
C26_LastDateIsLastEvent ==
    /\ (last_rebalance_date = NoDate) <=> (rebalance_history = << >>)
    /\ rebalance_history # << >> => last_rebalance_date = LastEvent.date

\* Two events, the later one appended with the earlier date: the last
\* rebalance date is the date of the event appended last, not the latest.
C26_Witness ==
    /\ Len(rebalance_history) = 2
    /\ rebalance_history[1].date = Day(30)
    /\ rebalance_history[2].date = 0
    /\ last_rebalance_date = 0

(***************************************************************************)
(* C27: in a backtest on a fresh rebalancer a rebalance is executed on the *)
(* first date, with trigger Scheduled, and every later event whose trigger *)
(* is Scheduled is dated at least frequency_days whole days after the      *)
(* event before it in the history: events closer together than that carry  *)
(* another trigger.                                                        *)
(***************************************************************************)
\* A backtest is running and every event of the history is its own.
FreshRun == bt.pc = "loop" /\ Len(rebalance_history) = Len(bt.rebalance_dates)

NextEvent == rebalance_history'[Len(rebalance_history')]

C27_ScheduledSpacing ==
    [][FreshRun =>
          /\ (bt.i = 0 /\ bt' # bt) =>
                /\ bt'.pc = "loop" /\ bt'.rebalanced
                /\ NextEvent.trigger = "Scheduled"
                /\ NextEvent.date = bt.data.index[1]
          /\ (BacktestPass /\ bt.i > 0 /\ bt'.rebalanced /\ NextEvent.trigger = "Scheduled") =>
                Days(NextEvent.date - LastEvent.date) >= FrequencyDays(config.frequency)]_vars

\* A weekly run over dates a day and a half apart: the second event is
\* Scheduled, seven whole days after the first.
C27_Witness ==
    /\ FreshRun
    /\ config.frequency = "Weekly"
    /\ Len(rebalance_history) = 2
    /\ rebalance_history[1].trigger = "Scheduled"
    /\ rebalance_history[2].trigger = "Scheduled"
    /\ Days(rebalance_history[2].date - rebalance_history[1].date) = 7
    /\ rebalance_history[2].date - rebalance_history[1].date > Day(7)

(***************************************************************************)
(* C28: the value path of a backtest does not depend on the trade list.    *)
(* On a rebalance the shares are reset to the full target weights, also    *)
(* when trades were skipped or truncated, and the cost is not taken from   *)
(* the portfolio value; so a run on a fresh rebalancer and the same run    *)
(* under a configuration that differs in trading_cost_percent,             *)
(* min_trade_amount or max_trades_per_period only have the same            *)
(* portfolio_values, rebalance_dates and total_return.                     *)
(***************************************************************************)
\* The configurations that differ from cfg in those three fields at most.
Variants(cfg) ==
    {[cfg EXCEPT !.trading_cost_percent = tc, !.min_trade_amount = mta,
                 !.max_trades_per_period = mtp] :
        tc \in {Zero, One}, mta \in {Zero, Int2Q(1000)}, mtp \in {0, 20}}

\* The first n rows of the run of frame f, gone through by a fresh rebalancer
\* configured as cfg.
RECURSIVE Replay(_, _, _)
Replay(cfg, f, n) ==
    IF n = 0
    THEN [shares |-> InitialShares(f.data, f.target_weights, f.tw_order,
                                   f.initial_value, NoShares),
          last |-> NoDate, values |-> << >>, dates |-> << >>, raised |-> ""]
    ELSE LET r == Replay(cfg, f, n - 1)
             prices == f.data.rows[n]
             date == f.data.index[n]
             val == Valuation(r.shares.map, r.shares.order, prices, NoValue)
             order == SetOrder(UnionKeys(val.current_weights, f.target_weights))
             d == should_rebalance(cfg, r.last, val.current_weights, f.target_weights,
                                   date, None, None, order)
         IN  IF r.raised # "" THEN r
             ELSE IF d.raised # "" THEN [r EXCEPT !.raised = d.raised]
             ELSE IF d.should /\ Len(r.dates) < RebalanceCap
             THEN [shares |-> ResetShares(r.shares, f.target_weights, f.tw_order,
                                          prices, val.current_value),
                   last |-> date,
                   values |-> Append(r.values, val.current_value),
                   dates |-> Append(r.dates, date),
                   raised |-> ""]
             ELSE [r EXCEPT !.values = Append(r.values, val.current_value)]

SameRun(f, cfg) ==
    LET r == Replay(cfg, f, f.i)
    IN  /\ r.raised = ""
        /\ r.values = f.portfolio_values
        /\ r.dates = f.rebalance_dates
        /\ r.shares.map = f.current_shares

SameReport(f, cfg, report) ==
    LET r == Replay(cfg, f, f.i)
    IN  /\ r.raised = ""
        /\ report.portfolio_values = r.values
        /\ report.rebalance_dates = r.dates
        /\ report.total_return = QSub(QDiv(r.values[Len(r.values)], f.initial_value), One)

C28_ValuePathIgnoresTrades ==
    [][/\ (bt'.pc = "loop" /\ Len(rebalance_history') = Len(bt'.rebalance_dates)) =>
             \A cfg \in Variants(config) : SameRun(bt', cfg)
       /\ (FreshRun /\ bt'.pc = "idle" /\ call'.ret.raised = "") =>
             \A cfg \in Variants(config) : SameReport(bt, cfg, call'.ret)
       /\ (BacktestPass /\ bt'.rebalanced) =>
             /\ bt'.portfolio_values[bt'.i] = PassValuation.current_value
             /\ \A s \in DOMAIN bt.target_weights :
                   Priced(PassPrices, s) =>
                      bt'.current_shares[s] =
                         QDiv(QMul(PassValuation.current_value, bt.target_weights[s]),
                              PassPrices[s])]_vars

\* A rebalance of the second date whose trade list was cut to one trade, at
\* a cost: both assets are back on target all the same, and the value
\* recorded is the full value of the shares.
C28_Witness ==
    /\ FreshRun
    /\ bt.i = 2 /\ bt.rebalanced
    /\ config.max_trades_per_period = 1
    /\ Len(LastEvent.trades) = 1
    /\ QGt(LastEvent.cost, Zero)
    /\ DOMAIN bt.target_weights = {"A", "B"}
    /\ \A s \in {"A", "B"} :
          bt.current_shares[s] =
             QDiv(QMul(bt.current_value, bt.target_weights[s]), RowOf(bt)[s])
    /\ bt.portfolio_values[2] = bt.current_value

(***************************************************************************)
(* C29: in the trades the trade generator returns, a trade is BUY exactly  *)
(* when target > current, and trade_amount = trade_weight *                *)
(* portfolio_value; when the current and the target map have the same      *)
(* total weight and no trade was skipped by min_trade_amount or cut by     *)
(* max_trades_per_period, the BUY amounts and the SELL amounts sum to the  *)
(* same.                                                                   *)
(***************************************************************************)
TradeCall == call.op \in {"_generate_rebalance_trades", "execute_rebalance"}

TotalWeight(w) ==
    LET order == SetOrder(DOMAIN w)
    IN  QSum([i \in DOMAIN order |-> w[order[i]]])

\* Every symbol whose weight has to change has its trade in the result.
NothingDropped ==
    \A s \in UnionKeys(call.current_weights, call.target_weights) :
       ~QIsZero(Amount(s)) => s \in Retained

AmountOf(action) ==
    LET side == SelectSeq(call.ret.trades, LAMBDA t : t.action = action)
    IN  QSum([i \in DOMAIN side |-> side[i].trade_amount])

C29_TradesBalance ==
    TradeCall =>
       /\ \A i \in DOMAIN call.ret.trades :
             LET t == call.ret.trades[i]
             IN  /\ t.action \in {"BUY", "SELL"}
                 /\ t.action = "BUY" <=> QGt(Get(call.target_weights, t.symbol),
                                             Get(call.current_weights, t.symbol))
                 /\ t.trade_amount = QMul(t.trade_weight, call.portfolio_value)
       /\ (/\ TotalWeight(call.current_weights) = TotalWeight(call.target_weights)
           /\ NothingDropped)
             => AmountOf("BUY") = AmountOf("SELL")

\* One purchase of 2000 paid by two sales, of 500 and of 1500.
C29_Witness ==
    /\ call.op = "_generate_rebalance_trades"
    /\ call.current_weights = W3(Q(3, 10), Q(7, 20), Q(7, 20))
    /\ call.target_weights = TradeTarget
    /\ Len(call.ret.trades) = 3
    /\ NothingDropped
    /\ AmountOf("BUY") = Int2Q(2000)
    /\ AmountOf("SELL") = Int2Q(2000)
    /\ Cardinality({i \in DOMAIN call.ret.trades : call.ret.trades[i].action = "SELL"}) = 2

\* What an event's weight field reads as, given the caller's dicts c: the
\* items the event holds, or the present items of the dict it shares.
Recorded(c, w) == IF DOMAIN w = {"ref"} THEN c[w.ref] ELSE w

Differing(e) == {s \in DOMAIN e.before_weights \cup DOMAIN e.after_weights : Get(e.before_weights, s) # Get(e.after_weights, s)}

\* C30: the event appended by execute_rebalance reads before_weights equal to
\* the current_weights and after_weights equal to the whole target_weights
\* it was passed, whatever trades were skipped or cut, and every event
\* already in the history reads the same after any step, a later write of
\* the caller to either dict included.
C30_EventsAreSnapshots ==
    [][/\ (DirectExecute \/ BacktestExecute) =>
             LET e == rebalance_history'[Len(rebalance_history')]
             IN  /\ Recorded(caller', e.before_weights) = caller'.current
                 /\ Recorded(caller', e.after_weights) = caller'.target
                 /\ DirectExecute => /\ caller'.current = call'.current_weights
                                      /\ caller'.target = call'.target_weights
                 /\ BacktestExecute => caller'.target = bt.target_weights
       /\ \A i \in DOMAIN rebalance_history \cap DOMAIN rebalance_history' :
             /\ Recorded(caller', rebalance_history'[i].before_weights)
                   = Recorded(caller, rebalance_history[i].before_weights)
             /\ Recorded(caller', rebalance_history'[i].after_weights)
                   = Recorded(caller, rebalance_history[i].after_weights)]_vars

\* An event whose trades were cut to one of three differing symbols, read
\* after the caller zeroed "A" in both dicts: the event still has the
\* weights of the call.
C30_Witness ==
    /\ rebalance_history # << >>
    /\ call.op = "__setitem__"
    /\ caller.current["A"] = Zero
    /\ caller.target["A"] = Zero
    /\ LastEvent.before_weights = W3(Q(3, 10), Q(7, 20), Q(7, 20))
    /\ LastEvent.after_weights = TradeTarget
    /\ Cardinality(Differing(LastEvent)) = 3
    /\ Len(LastEvent.trades) = 1

====
